---- MODULE Spec2Model ----
(***************************************************************************)
(* A model of the rsvm runtime core: class initialization, the bootstrap   *)
(* class registry, the symbol and string tables over the open-addressing   *)
(* hash table, field layout, the vtable / itable construction, the         *)
(* bytecode interpreter's control transfers, the descriptor parser and the *)
(* class file parser.                                                      *)
(* Each subsystem has its own specification (SpecInit, SpecLoad, ...); a   *)
(* specification leaves the variables of the other subsystems untouched.   *)
(***************************************************************************)
EXTENDS Integers, Sequences, FiniteSets, TLC

VARIABLES
    \* ---- class initialization (object/class.rs, runtime/interpreter.rs)
    initState,      \* JClass::_init_state of every class
    statics,        \* the static field of every class (P.x, Q.v, S.s)
    callStack,      \* per thread: the activations of handlers / initialize / <clinit>
    opsDone,        \* per thread: number of top-level bytecodes started
    clinitStarts,   \* history: how often <clinit> of a class started executing
    clinitDone,     \* history: a <clinit> of the class has run to completion
    accessLog,      \* history: every static access with what was true when it happened
    observed,       \* per thread: value delivered by the last top-level getstatic
    \* ---- bootstrap class registry (classfile/class_loader.rs)
    loaded_classes, \* BootstrapClassLoader::loaded_classes, a HashTable of classes
    classHeap,      \* the JClass objects created so far
    loadStack,      \* per thread: the load_class activations (name, position)
    loadsDone,      \* per thread: number of top-level load_class calls started
    loadLog,        \* history: (name, class object) of every returned load_class
    \* ---- symbol table (object/symbol.rs)
    symbol_table,   \* SymbolTable::table, a HashTable of symbols
    symHeap,        \* the Symbol objects created so far: pointer -> bytes, hash
    symLog,         \* history: (key, symbol) of every returned get_or_insert
    symBorn,        \* history: the table capacity when each symbol was created
    symRevisit,     \* history: a symbol of an earlier table was found after a resize
    \* ---- string table (object/symbol.rs)
    string_table,   \* StringTable::table, a HashTable of java.lang.String objects
    strHeap,        \* the String objects created so far: pointer -> value (char[]), hash
    charHeap,       \* the char[] objects of those strings: pointer -> UTF-16 units
    strLog,         \* history: (content, string) of every returned intern
    fromSymLog,     \* history: (content, string) of every returned from_symbol
    \* ---- field layout (classfile/parser.rs, object/class.rs)
    layClasses,     \* the classes created so far, with their fields and sizes
    layParser,      \* the ClassFileParser inside parse_fields, or << >>
    \* ---- method tables (object/class.rs, runtime/interpreter.rs)
    vtClasses,      \* the classes created so far, with their methods and VTable blocks
    vtCall,         \* the last invokevirtual / invokeinterface and its outcome, or << >>
    \* ---- bytecode interpreter (runtime/interpreter.rs, runtime/stack.rs)
    method_code,    \* the code array of the method of the current frame
    interp_pc,      \* Interpreter::pc: the address after the opcode being handled, 0 when done
    interp_stack,   \* the operand stack of the current frame, top first, one slot each
    interp_heap,    \* the arrays created so far
    interp_last,    \* history: the instruction handled last, or << >>
    \* ---- descriptor parser (classfile/descriptor.rs)
    dp_value,       \* DescriptorParser::value, the descriptor bytes as characters
    dp_offset,      \* DescriptorParser::offset
    dp_cur_arr,     \* DescriptorParser::cur_arr
    dp_tokens,      \* history: the Descriptor returned by every next() so far
    \* ---- class file parser (classfile/parser.rs, classfile/reader.rs)
    class_bytes,    \* ClassReader::class_bytes, the class file
    reader_offset,  \* ClassReader::offset
    parse_result,   \* what parse_class returned (or that it panicked), << >> before
    class_shape,    \* history: how the class file was put together
    \* ---- call frames (runtime/stack.rs, runtime/frame.rs, runtime/interpreter.rs)
    stack_mem,      \* the slots of the thread's stack, by address
    stack_sp,       \* Stack::sp
    stack_bp,       \* Stack::bp
    stack_pc,       \* Interpreter::pc
    stack_frame,    \* Stack::frame and its prev chain, the current frame first
    stack_last,     \* history: the return handled last, or << >>
    \* ---- handle scopes (handle.rs)
    handle_area,    \* HandleData::area of the thread
    raw_handles,    \* HandleData::raw_handles, the chunks
    handle_scopes,  \* the HandleScope values alive, the innermost first
    handle_last,    \* history: the scope dropped last, or << >>
    \* ---- bump allocation (memory/space.rs)
    space_free,     \* Space::free
    space_lock,     \* the thread that holds the Mutex of free, or 0
    alloc_calls,    \* per thread: the Space::alloc call it is in, or << >>
    alloc_log,      \* history: the Space::alloc calls that returned, in order
    \* ---- hash table probing (object/hash_table.rs)
    probe_table,    \* a HashTable
    probe_heap,     \* the entries created so far: pointer -> hash
    probe_last,     \* history: the probe run last and the slot it returned, or << >>
    \* ---- thread-local allocation buffers (memory/heap.rs, memory/lab.rs)
    heap_free,      \* Space::free of the new space and of the permanent space
    lab_bufs,       \* per thread: Thread::lab, its free and limit
    heap_calls,     \* per thread: the allocation call it is in
    heap_log        \* history: the allocations that returned, in order

initVars == <<initState, statics, callStack, opsDone, clinitStarts, clinitDone,
              accessLog, observed>>

loadVars == <<loaded_classes, classHeap, loadStack, loadsDone, loadLog>>

symVars == <<symbol_table, symHeap, symLog, symBorn, symRevisit>>

strVars == <<string_table, strHeap, charHeap, strLog, fromSymLog>>

layVars == <<layClasses, layParser>>

vtVars == <<vtClasses, vtCall>>

interpVars == <<method_code, interp_pc, interp_stack, interp_heap, interp_last>>

descVars == <<dp_value, dp_offset, dp_cur_arr, dp_tokens>>

parseVars == <<class_bytes, reader_offset, parse_result, class_shape>>

frameVars == <<stack_mem, stack_sp, stack_bp, stack_pc, stack_frame, stack_last>>

handleVars == <<handle_area, raw_handles, handle_scopes, handle_last>>

spaceVars == <<space_free, space_lock, alloc_calls, alloc_log>>

probeVars == <<probe_table, probe_heap, probe_last>>

labVars == <<heap_free, lab_bufs, heap_calls, heap_log>>

vars == <<initVars, loadVars, symVars, strVars, layVars, vtVars, interpVars,
          descVars, parseVars, frameVars, handleVars, spaceVars, probeVars, labVars>>

\* the variables of the memory and frame subsystems, which the specifications
\* of the other subsystems leave alone
memVars == <<frameVars, handleVars, spaceVars, probeVars, labVars>>

coreVars == <<initVars, loadVars, symVars, strVars, layVars, vtVars, interpVars,
              descVars, parseVars>>

nonInitVars == <<loadVars, symVars, strVars, layVars, vtVars, interpVars,
    descVars, parseVars,
    memVars>>

nonLoadVars == <<initVars, symVars, strVars, layVars, vtVars, interpVars,
    descVars, parseVars,
    memVars>>

nonSymVars == <<initVars, loadVars, strVars, layVars, vtVars, interpVars,
    descVars, parseVars,
    memVars>>

nonStrVars == <<initVars, loadVars, symVars, layVars, vtVars, interpVars,
    descVars, parseVars,
    memVars>>

nonLayVars == <<initVars, loadVars, symVars, strVars, vtVars, interpVars,
    descVars, parseVars,
    memVars>>

nonVtVars == <<initVars, loadVars, symVars, strVars, layVars, interpVars,
    descVars, parseVars,
    memVars>>

nonInterpVars == <<initVars, loadVars, symVars, strVars, layVars, vtVars,
    descVars, parseVars,
    memVars>>

nonDescVars == <<initVars, loadVars, symVars, strVars, layVars, vtVars, interpVars,
    parseVars,
    memVars>>

nonFrameVars == <<coreVars, handleVars, spaceVars, probeVars, labVars>>

nonHandleVars == <<coreVars, frameVars, spaceVars, probeVars, labVars>>

nonSpaceVars == <<coreVars, frameVars, handleVars, probeVars, labVars>>

nonProbeVars == <<coreVars, frameVars, handleVars, spaceVars, labVars>>

nonLabVars == <<coreVars, frameVars, handleVars, spaceVars, probeVars>>

nonParseVars == <<initVars, loadVars, symVars, strVars, layVars, vtVars, interpVars,
    descVars,
    memVars>>

\* A subsystem that a specification does not exercise stays in this state.
InitIdle ==
    /\ initState = << >> /\ statics = << >> /\ callStack = << >> /\ opsDone = << >>
    /\ clinitStarts = << >> /\ clinitDone = << >> /\ accessLog = {} /\ observed = << >>

LoadIdle ==
    /\ loaded_classes = << >> /\ classHeap = {} /\ loadStack = << >>
    /\ loadsDone = << >> /\ loadLog = {}

SymIdle ==
    /\ symbol_table = << >> /\ symHeap = << >> /\ symLog = {}
    /\ symBorn = << >> /\ symRevisit = FALSE

StrIdle ==
    /\ string_table = << >> /\ strHeap = << >> /\ charHeap = << >>
    /\ strLog = {} /\ fromSymLog = {}

LayIdle == layClasses = << >> /\ layParser = << >>

VtIdle == vtClasses = << >> /\ vtCall = << >>

InterpIdle ==
    /\ method_code = << >> /\ interp_pc = 0 /\ interp_stack = << >>
    /\ interp_heap = << >> /\ interp_last = << >>

DescIdle ==
    /\ dp_value = << >> /\ dp_offset = 0 /\ dp_cur_arr = FALSE /\ dp_tokens = << >>

ParseIdle ==
    /\ class_bytes = << >> /\ reader_offset = 0 /\ parse_result = << >>
    /\ class_shape = << >>

FrameIdle ==
    /\ stack_mem = << >> /\ stack_sp = 0 /\ stack_bp = 0 /\ stack_pc = 0
    /\ stack_frame = << >> /\ stack_last = << >>

HandleIdle ==
    /\ handle_area = << >> /\ raw_handles = << >> /\ handle_scopes = << >>
    /\ handle_last = << >>

SpaceIdle ==
    /\ space_free = 0 /\ space_lock = 0 /\ alloc_calls = << >> /\ alloc_log = << >>

ProbeIdle == probe_table = << >> /\ probe_heap = << >> /\ probe_last = << >>

LabIdle ==
    /\ heap_free = << >> /\ lab_bufs = << >> /\ heap_calls = << >> /\ heap_log = << >>

MemIdle == FrameIdle /\ HandleIdle /\ SpaceIdle /\ ProbeIdle /\ LabIdle

CoreIdle == InitIdle /\ LoadIdle /\ SymIdle /\ StrIdle /\ LayIdle /\ VtIdle
    /\ InterpIdle /\ DescIdle /\ ParseIdle

NonFrameIdle == CoreIdle /\ HandleIdle /\ SpaceIdle /\ ProbeIdle /\ LabIdle

NonHandleIdle == CoreIdle /\ FrameIdle /\ SpaceIdle /\ ProbeIdle /\ LabIdle

NonSpaceIdle == CoreIdle /\ FrameIdle /\ HandleIdle /\ ProbeIdle /\ LabIdle

NonProbeIdle == CoreIdle /\ FrameIdle /\ HandleIdle /\ SpaceIdle /\ LabIdle

NonLabIdle == CoreIdle /\ FrameIdle /\ HandleIdle /\ SpaceIdle /\ ProbeIdle

NonInitIdle == LoadIdle /\ SymIdle /\ StrIdle /\ LayIdle /\ VtIdle /\ InterpIdle
    /\ DescIdle /\ ParseIdle
    /\ MemIdle

NonLoadIdle == InitIdle /\ SymIdle /\ StrIdle /\ LayIdle /\ VtIdle /\ InterpIdle
    /\ DescIdle /\ ParseIdle
    /\ MemIdle

NonSymIdle == InitIdle /\ LoadIdle /\ StrIdle /\ LayIdle /\ VtIdle /\ InterpIdle
    /\ DescIdle /\ ParseIdle
    /\ MemIdle

NonStrIdle == InitIdle /\ LoadIdle /\ SymIdle /\ LayIdle /\ VtIdle /\ InterpIdle
    /\ DescIdle /\ ParseIdle
    /\ MemIdle

NonLayIdle == InitIdle /\ LoadIdle /\ SymIdle /\ StrIdle /\ VtIdle /\ InterpIdle
    /\ DescIdle /\ ParseIdle
    /\ MemIdle

NonVtIdle == InitIdle /\ LoadIdle /\ SymIdle /\ StrIdle /\ LayIdle /\ InterpIdle
    /\ DescIdle /\ ParseIdle
    /\ MemIdle

NonInterpIdle == InitIdle /\ LoadIdle /\ SymIdle /\ StrIdle /\ LayIdle /\ VtIdle
    /\ DescIdle /\ ParseIdle
    /\ MemIdle

NonDescIdle == InitIdle /\ LoadIdle /\ SymIdle /\ StrIdle /\ LayIdle /\ VtIdle
    /\ InterpIdle /\ ParseIdle
    /\ MemIdle

NonParseIdle == InitIdle /\ LoadIdle /\ SymIdle /\ StrIdle /\ LayIdle /\ VtIdle
    /\ InterpIdle /\ DescIdle
    /\ MemIdle

-----------------------------------------------------------------------------
(***************************************************************************)
(* Class initialization.                                                   *)
(***************************************************************************)

NThreads == 2
MaxOps == 1

Threads == 1..NThreads

\* S6 of the specification: class P { static int x = Q.v; }  class Q extends S
\* { static int v = 1; }  class S { static int s; } (S has no <clinit>).
InitClasses == {"P", "Q", "S"}

NoClass == "none"

SuperOf(c) == IF c = "Q" THEN "S" ELSE NoClass

\* ClassData::init_method is non-null
HasClinit(c) == c \in {"P", "Q"}

\* The bytecode of <clinit>.  iconst_1 is folded into putstatic's operand.
ClinitCode(c) ==
    IF c = "P" THEN << [op |-> "getstatic", cls |-> "Q"],
                       [op |-> "putstatic", cls |-> "P"],
                       [op |-> "return",    cls |-> "P"] >>
    ELSE IF c = "Q" THEN << [op |-> "iconst_1",  cls |-> "Q"],
                            [op |-> "putstatic", cls |-> "Q"],
                            [op |-> "return",    cls |-> "Q"] >>
    ELSE << >>

\* ClassInitState::as_u8
StateRank(s) ==
    CASE s = "Created" -> 0
      [] s = "Linked" -> 1
      [] s = "Initializing" -> 2
      [] s = "Initialized" -> 3

IsLinked(s) == StateRank(s) >= StateRank("Linked")

Frame(kind, op, cls, pc, ip, val) ==
    [kind |-> kind, op |-> op, cls |-> cls, pc |-> pc, ip |-> ip, val |-> val]

Top(t) == callStack[t][Len(callStack[t])]

Pop(s) == SubSeq(s, 1, Len(s) - 1)

ReplaceTop(s, f) == [s EXCEPT ![Len(s)] = f]

HasTop(t, kind, pc) ==
    /\ Len(callStack[t]) > 0
    /\ Top(t).kind = kind
    /\ Top(t).pc = pc

\* the thread is running <clinit> of c (some activation of it is on its stack)
InClinitOf(t, c) ==
    \E i \in 1..Len(callStack[t]) :
        callStack[t][i].kind = "clinit" /\ callStack[t][i].cls = c

InitInit ==
    /\ initState = [c \in InitClasses |-> "Created"]
    /\ statics = [c \in InitClasses |-> 0]
    /\ callStack = [t \in Threads |-> << >>]
    /\ opsDone = [t \in Threads |-> 0]
    /\ clinitStarts = [c \in InitClasses |-> 0]
    /\ clinitDone = [c \in InitClasses |-> FALSE]
    /\ accessLog = {}
    /\ observed = [t \in Threads |-> [cls |-> NoClass, val |-> 0]]
    /\ NonInitIdle

\* A top-level bytecode of the embedder's method: getstatic / invokestatic / new
\* on class c (putstatic occurs inside the <clinit> methods).
TopLevelOps == {"getstatic", "invokestatic", "new"}

BeginOp(t, op, c) ==
    /\ callStack[t] = << >>
    /\ opsDone[t] < MaxOps
    /\ opsDone' = [opsDone EXCEPT ![t] = @ + 1]
    /\ callStack' = [callStack EXCEPT ![t] = << Frame("op", op, c, "initialize", 0, 0) >>]
    /\ UNCHANGED nonInitVars
    /\ UNCHANGED <<initState, statics, clinitStarts, clinitDone, accessLog, observed>>

\* case_label_getstatic / putstatic / invokestatic / new: decl_cls.initialize(thread)
OpCallInitialize(t) ==
    /\ HasTop(t, "op", "initialize")
    /\ callStack' = [callStack EXCEPT ![t] =
            Append(ReplaceTop(@, [Top(t) EXCEPT !.pc = "access"]),
                   Frame("init", "none", Top(t).cls, "chkInitialized", 0, 0))]
    /\ UNCHANGED nonInitVars
    /\ UNCHANGED <<initState, statics, opsDone, clinitStarts, clinitDone, accessLog, observed>>

\* the value a returning getstatic pushes on the operand stack of the caller
Deliver(s, v) ==
    IF Len(s) > 0 THEN ReplaceTop(s, [s[Len(s)] EXCEPT !.val = v]) ELSE s

\* the handler's own work after initialize returned: read or write the static
\* field, enter the static method, allocate the instance
OpAccess(t) ==
    /\ HasTop(t, "op", "access")
    /\ LET f == Top(t)
           c == f.cls
       IN /\ accessLog' = accessLog \cup
                 { [cls |-> c, op |-> f.op,
                    completed |-> (clinitDone[c] \/ ~HasClinit(c)),
                    inOwnClinit |-> InClinitOf(t, c)] }
          /\ statics' = IF f.op = "putstatic"
                        THEN [statics EXCEPT ![c] = f.val] ELSE statics
          /\ callStack' = [callStack EXCEPT ![t] =
                 IF f.op = "getstatic" THEN Deliver(Pop(@), statics[c]) ELSE Pop(@)]
          /\ observed' = IF f.op = "getstatic" /\ Len(callStack[t]) = 1
                         THEN [observed EXCEPT ![t] = [cls |-> c, val |-> statics[c]]]
                         ELSE observed
    /\ UNCHANGED nonInitVars
    /\ UNCHANGED <<initState, opsDone, clinitStarts, clinitDone>>

\* JClass::initialize: if self._init_state == Initialized { return Ok(()) }
InitChkInitialized(t) ==
    /\ HasTop(t, "init", "chkInitialized")
    /\ callStack' = [callStack EXCEPT ![t] =
            IF initState[Top(t).cls] = "Initialized"
            THEN Pop(@)
            ELSE ReplaceTop(@, [Top(t) EXCEPT !.pc = "chkLinked"])]
    /\ UNCHANGED nonInitVars
    /\ UNCHANGED <<initState, statics, opsDone, clinitStarts, clinitDone, accessLog, observed>>

\* JClass::initialize: if !self.is_linked() { self.link(thread)? }
InitChkLinked(t) ==
    /\ HasTop(t, "init", "chkLinked")
    /\ callStack' = [callStack EXCEPT ![t] =
            ReplaceTop(@, [Top(t) EXCEPT !.pc =
                IF IsLinked(initState[Top(t).cls]) THEN "chkInitializing" ELSE "link"])]
    /\ UNCHANGED nonInitVars
    /\ UNCHANGED <<initState, statics, opsDone, clinitStarts, clinitDone, accessLog, observed>>

\* JClass::link: the superclass is linked first when it is not linked yet, then
\* self_ptr._init_state = Linked
LinkStates(st, c) ==
    LET sup == SuperOf(c)
        st1 == IF sup # NoClass /\ ~IsLinked(st[sup])
               THEN [st EXCEPT ![sup] = "Linked"] ELSE st
    IN [st1 EXCEPT ![c] = "Linked"]

InitLink(t) ==
    /\ HasTop(t, "init", "link")
    /\ initState' = LinkStates(initState, Top(t).cls)
    /\ callStack' = [callStack EXCEPT ![t] =
            ReplaceTop(@, [Top(t) EXCEPT !.pc = "chkInitializing"])]
    /\ UNCHANGED nonInitVars
    /\ UNCHANGED <<statics, opsDone, clinitStarts, clinitDone, accessLog, observed>>

\* JClass::initialize: if self._init_state == Initializing { return Ok(()) }
InitChkInitializing(t) ==
    /\ HasTop(t, "init", "chkInitializing")
    /\ callStack' = [callStack EXCEPT ![t] =
            IF initState[Top(t).cls] = "Initializing"
            THEN Pop(@)
            ELSE ReplaceTop(@, [Top(t) EXCEPT !.pc = "setInitializing"])]
    /\ UNCHANGED nonInitVars
    /\ UNCHANGED <<initState, statics, opsDone, clinitStarts, clinitDone, accessLog, observed>>

\* JClass::initialize: self_ptr._init_state = Initializing
InitSetInitializing(t) ==
    /\ HasTop(t, "init", "setInitializing")
    /\ initState' = [initState EXCEPT ![Top(t).cls] = "Initializing"]
    /\ callStack' = [callStack EXCEPT ![t] =
            ReplaceTop(@, [Top(t) EXCEPT !.pc = "callClinit"])]
    /\ UNCHANGED nonInitVars
    /\ UNCHANGED <<statics, opsDone, clinitStarts, clinitDone, accessLog, observed>>

\* JClass::initialize: if init_method.is_not_null() { vm.call_static_void(..) }
InitCallClinit(t) ==
    /\ HasTop(t, "init", "callClinit")
    /\ callStack' = [callStack EXCEPT ![t] =
            LET s == ReplaceTop(@, [Top(t) EXCEPT !.pc = "setInitialized"])
            IN IF HasClinit(Top(t).cls)
               THEN Append(s, Frame("clinit", "none", Top(t).cls, "vmInitialize", 0, 0))
               ELSE s]
    /\ UNCHANGED nonInitVars
    /\ UNCHANGED <<initState, statics, opsDone, clinitStarts, clinitDone, accessLog, observed>>

\* VM::call_static_void: class.initialize(thread).unwrap()
ClinitVmInitialize(t) ==
    /\ HasTop(t, "clinit", "vmInitialize")
    /\ callStack' = [callStack EXCEPT ![t] =
            Append(ReplaceTop(@, [Top(t) EXCEPT !.pc = "enter"]),
                   Frame("init", "none", Top(t).cls, "chkInitialized", 0, 0))]
    /\ UNCHANGED nonInitVars
    /\ UNCHANGED <<initState, statics, opsDone, clinitStarts, clinitDone, accessLog, observed>>

\* VM::call_static_void: Interpreter::call_static_method(class, method, ..):
\* <clinit> starts executing
ClinitEnter(t) ==
    /\ HasTop(t, "clinit", "enter")
    /\ clinitStarts' = [clinitStarts EXCEPT ![Top(t).cls] = @ + 1]
    /\ callStack' = [callStack EXCEPT ![t] =
            ReplaceTop(@, [Top(t) EXCEPT !.pc = "run", !.ip = 1])]
    /\ UNCHANGED nonInitVars
    /\ UNCHANGED <<initState, statics, opsDone, clinitDone, accessLog, observed>>

\* one bytecode of <clinit>
ClinitStep(t) ==
    /\ HasTop(t, "clinit", "run")
    /\ LET f == Top(t)
           ins == ClinitCode(f.cls)[f.ip]
       IN /\ callStack' = [callStack EXCEPT ![t] =
                 CASE ins.op = "iconst_1" ->
                        ReplaceTop(@, [f EXCEPT !.ip = @ + 1, !.val = 1])
                   [] ins.op \in {"getstatic", "putstatic"} ->
                        Append(ReplaceTop(@, [f EXCEPT !.ip = @ + 1]),
                               Frame("op", ins.op, ins.cls, "initialize", 0, f.val))
                   [] ins.op = "return" -> Pop(@)]
          /\ clinitDone' = IF ins.op = "return"
                           THEN [clinitDone EXCEPT ![f.cls] = TRUE] ELSE clinitDone
    /\ UNCHANGED nonInitVars
    /\ UNCHANGED <<initState, statics, opsDone, clinitStarts, accessLog, observed>>

\* JClass::initialize: self_ptr._init_state = Initialized; return Ok(())
InitSetInitialized(t) ==
    /\ HasTop(t, "init", "setInitialized")
    /\ initState' = [initState EXCEPT ![Top(t).cls] = "Initialized"]
    /\ callStack' = [callStack EXCEPT ![t] = Pop(@)]
    /\ UNCHANGED nonInitVars
    /\ UNCHANGED <<statics, opsDone, clinitStarts, clinitDone, accessLog, observed>>

NextInit ==
    \E t \in Threads :
        \/ \E op \in TopLevelOps, c \in InitClasses : BeginOp(t, op, c)
        \/ OpCallInitialize(t)
        \/ OpAccess(t)
        \/ InitChkInitialized(t)
        \/ InitChkLinked(t)
        \/ InitLink(t)
        \/ InitChkInitializing(t)
        \/ InitSetInitializing(t)
        \/ InitCallClinit(t)
        \/ ClinitVmInitialize(t)
        \/ ClinitEnter(t)
        \/ ClinitStep(t)
        \/ InitSetInitialized(t)

SpecInit == InitInit /\ [][NextInit]_vars

\* C1: the <clinit> method of every class starts executing at most once during
\* the VM lifetime, whatever the number of threads that call initialize.
C1_ClinitAtMostOnce == \A c \in InitClasses : clinitStarts[c] <= 1

\* C2: every static access (getstatic, putstatic, invokestatic, new) on class C
\* happens after C's initialization has been performed - its <clinit> has run
\* to completion, or the access comes from inside that <clinit> - and a read of
\* P.x yields the value computed from the initialized Q.v (1).
C2_InitializedBeforeUse ==
    /\ \A e \in accessLog : e.completed \/ e.inOwnClinit
    /\ \A t \in Threads : observed[t].cls = "P" => observed[t].val = 1

-----------------------------------------------------------------------------
(***************************************************************************)
(* Strings.  A Rust &str is modelled by the sequence of its code points    *)
(* (what chars() yields); the bytes a Symbol stores are its UTF-8          *)
(* encoding, the char[] of a java.lang.String its UTF-16 encoding.         *)
(* 32-bit integers are kept as signed values; products are formed from     *)
(* 16-bit limbs and wrap.                                                  *)
(***************************************************************************)

\* 2^0 .. 2^15
Pow2 == << 1, 2, 4, 8, 16, 32, 64, 128, 256, 512, 1024, 2048, 4096, 8192, 16384, 32768 >>

RECURSIVE XorBits(_, _, _)
\* bitwise exclusive or of two non-negative 16-bit numbers, from bit i up
XorBits(x, y, i) ==
    IF i = 16 THEN 0
    ELSE ((((x \div Pow2[i + 1]) + (y \div Pow2[i + 1])) % 2) * Pow2[i + 1])
         + XorBits(x, y, i + 1)

Xor16(x, y) == IF y = 0 THEN x ELSE XorBits(x, y, 0)

I32Lo(h) == h % 65536

I32Hi(h) == (h \div 65536) % 65536

\* the signed 32-bit value with the given 16-bit halves
I32Of(hi, lo) == IF hi >= 32768 THEN (hi - 65536) * 65536 + lo ELSE hi * 65536 + lo

\* hash ^ ch as JInt, for a code point or UTF-16 unit ch
I32Xor(h, ch) ==
    I32Of(Xor16(I32Hi(h), ch \div 65536), Xor16(I32Lo(h), ch % 65536))

\* hash * 0x01000193, wrapping (0x01000193 = 256 * 65536 + 403)
I32MulPrime(h) ==
    LET lo == I32Lo(h)
        hi == I32Hi(h)
        pl == lo * 403
    IN I32Of((hi * 403 + lo * 256 + (pl \div 65536)) % 65536, pl % 65536)

\* the element of a singleton set (its argument is evaluated at once, which
\* keeps the evaluation of the folds below shallow)
TheOne(S) == CHOOSE v \in S : TRUE

RECURSIVE HashUnits(_, _)
\* the loop shared by hash_utf8 and hash_utf16_ptr over the first n units
HashUnits(units, n) ==
    IF n = 0 THEN 0
    ELSE TheOne({ I32MulPrime(I32Xor(h, units[n])) : h \in { HashUnits(units, n - 1) } })

\* char::encode_utf8
Utf8OfChar(cp) ==
    IF cp < 128 THEN << cp >>
    ELSE IF cp < 2048 THEN << 192 + (cp \div 64), 128 + (cp % 64) >>
    ELSE IF cp < 65536
         THEN << 224 + (cp \div 4096), 128 + ((cp \div 64) % 64), 128 + (cp % 64) >>
    ELSE << 240 + (cp \div 262144), 128 + ((cp \div 4096) % 64),
            128 + ((cp \div 64) % 64), 128 + (cp % 64) >>

RECURSIVE Utf8Bytes(_)
\* the bytes of a &str
Utf8Bytes(content) ==
    IF content = << >> THEN << >>
    ELSE Utf8OfChar(Head(content)) \o Utf8Bytes(Tail(content))

RECURSIVE Utf8Chars(_)
\* str::chars() over (valid) UTF-8 bytes
Utf8Chars(bytes) ==
    IF bytes = << >> THEN << >>
    ELSE LET b == bytes[1]
             n == IF b < 128 THEN 1 ELSE IF b < 224 THEN 2 ELSE IF b < 240 THEN 3 ELSE 4
             cp == CASE n = 1 -> b
                     [] n = 2 -> (b - 192) * 64 + (bytes[2] - 128)
                     [] n = 3 -> (b - 224) * 4096 + (bytes[2] - 128) * 64 + (bytes[3] - 128)
                     [] n = 4 -> (b - 240) * 262144 + (bytes[2] - 128) * 4096
                                 + (bytes[3] - 128) * 64 + (bytes[4] - 128)
         IN << cp >> \o Utf8Chars(SubSeq(bytes, n + 1, Len(bytes)))

RECURSIVE EncodeUtf16(_)
\* str::encode_utf16: a surrogate pair for a code point above U+FFFF
EncodeUtf16(content) ==
    IF content = << >> THEN << >>
    ELSE LET cp == Head(content)
         IN (IF cp < 65536 THEN << cp >>
             ELSE << 55296 + ((cp - 65536) \div 1024), 56320 + ((cp - 65536) % 1024) >>)
            \o EncodeUtf16(Tail(content))

\* HeapString::hash_utf8
hash_utf8(content) == HashUnits(content, Len(content))

\* HeapString::hash_utf16_ptr / hash_utf16_str
hash_utf16(units) == HashUnits(units, Len(units))

-----------------------------------------------------------------------------
(***************************************************************************)
(* The open-addressing hash table (object/hash_table.rs).  An entry is a   *)
(* pointer; a pointer is the pair <<key, serial>> of the content the       *)
(* object was created for and the number of the object among those created *)
(* for that content, so that a newly allocated object differs from every   *)
(* existing one.  The operators take the entries' V::hash as a function    *)
(* hf on pointers and V::equals as the set eq of equal pairs.              *)
(***************************************************************************)

NullPtr == << 0, 0 >>

\* HashTable::DEFAULT_SIZE
DEFAULT_SIZE == 8

\* the number of different hashers get_hasher may draw
NHashers == 2

\* probe found no slot: the loop of HashTable::probe does not terminate
NoSlot == 0 - 1

RECURSIVE SqrtLoop(_, _, _, _)
SqrtLoop(n, low, high, mid) ==
    IF low < high
    THEN LET m == (low + high) \div 2
         IN IF m * m = n THEN m
            ELSE IF m * m > n THEN SqrtLoop(n, low, m - 1, m)
            ELSE SqrtLoop(n, m + 1, high, m)
    ELSE IF mid * mid = n THEN mid ELSE high

\* fn sqrt
sqrt(n) == SqrtLoop(n, 1, n, (1 + n) \div 2)

\* fn is_prime: no odd number in 3..sqrt(n) in steps of 2 divides n
is_prime(n) ==
    IF n = 2 \/ n = 3 THEN TRUE
    ELSE IF n % 2 = 0 \/ n <= 1 THEN FALSE
    ELSE \A d \in 3..sqrt(n) : (d - 3) % 2 = 0 => n % d # 0

RECURSIVE NextPrimeFrom(_)
NextPrimeFrom(n) == IF is_prime(n) THEN n ELSE NextPrimeFrom(n + 2)

\* fn next_prime
next_prime(n) ==
    IF n <= 2 THEN 2
    ELSE IF n % 2 = 0 THEN NextPrimeFrom(n + 1) ELSE NextPrimeFrom(n)

\* 2^64 modulo p, for p below 2^15
Pow64Mod(p) ==
    LET t16 == 65536 % p
        t32 == (t16 * t16) % p
    IN (t32 * t32) % p

\* HashTable::get_hasher: a in 1..p-1 and b in 0..p-1 at random, p =
\* next_prime(capacity); the draws <<a, b>> are taken from this list, all of
\* them below the smallest p (11)
HasherPool == << << 1, 0 >>, << 2, 1 >>, << 5, 3 >>, << 10, 7 >>, << 3, 10 >>, << 7, 4 >> >>

HasherSeeds == { HasherPool[i] : i \in 1..NHashers }

\* HashTable::new_with_init_size with the hasher drawn as seed
new_with_init_size(init_size, seed) ==
    LET capacity == next_prime((init_size \div 3) * 4)
        p == next_prime(capacity)
    IN [ capacity |-> capacity,
         size |-> 0,
         a |-> seed[1],
         b |-> seed[2],
         p |-> p,
         hung |-> FALSE,
         entries |-> [ i \in 0..(capacity - 1) |-> NullPtr ] ]

\* TableHasher::hash: ((a * val as u64 + b) % p) % capacity in wrapping 64-bit
\* arithmetic; a negative val is sign-extended to 2^64 + val
TableHasherHash(tbl, val) ==
    LET lin == (tbl.a * (val % tbl.p) + tbl.b) % tbl.p
    IN IF val >= 0 - (tbl.b \div tbl.a)
       THEN lin % tbl.capacity
       ELSE ((Pow64Mod(tbl.p) + lin) % tbl.p) % tbl.capacity

RECURSIVE ProbeFrom(_, _, _, _, _)
\* the loop of HashTable::probe; hits are the objects equals_fn accepts
ProbeFrom(tbl, origin_offset, offset, probe_count, hits) ==
    IF tbl.entries[offset] = NullPtr \/ tbl.entries[offset] \in hits THEN offset
    ELSE IF probe_count >= 2 * tbl.capacity THEN NoSlot
    ELSE LET pc == probe_count + 1
             next == IF pc % 2 # 0
                     THEN origin_offset + ((((pc + 1) \div 2) * (pc + 1)) \div 2)
                     ELSE origin_offset - (((pc \div 2) * pc) \div 2)
         IN ProbeFrom(tbl, origin_offset, next % tbl.capacity, pc, hits)

\* HashTable::probe
probe(tbl, val_hash, hits) ==
    LET origin_offset == TableHasherHash(tbl, val_hash)
    IN ProbeFrom(tbl, origin_offset, origin_offset, 0, hits)

\* the objects that V::equals val
EqualTo(val, eq) == { e[1] : e \in { x \in eq : x[2] = val } }

RECURSIVE insert(_, _, _, _, _)
RECURSIVE insert_entry(_, _, _, _, _, _)
RECURSIVE Reinsert(_, _, _, _, _, _)

\* HashTable::insert
insert(tbl, val, hf, eq, seed) ==
    LET entry == probe(tbl, hf[val], EqualTo(val, eq))
    IN IF tbl.hung THEN tbl
       ELSE IF entry = NoSlot THEN [tbl EXCEPT !.hung = TRUE]
       ELSE insert_entry(tbl, entry, val, hf, eq, seed)

\* a rebuild that forgets the previous entries
ReinsertNone(new_table, prev, index, hf, eq, seed) == new_table

\* the loop of insert_entry over the previous entries, from slot index on
Reinsert(new_table, prev, index, hf, eq, seed) ==
    IF index >= prev.capacity THEN new_table
    ELSE TheOne({ Reinsert(t, prev, index + 1, hf, eq, seed) :
                  t \in { IF prev.entries[index] # NullPtr
                          THEN insert(new_table, prev.entries[index], hf, eq, seed)
                          ELSE new_table } })

\* an insert_entry that takes every slot for an occupied one: the value is
\* written, the size is not counted and no table is built
insert_entryOccupied(tbl, entry, val, hf, eq, seed) == [tbl EXCEPT !.entries[entry] = val]

\* HashTable::insert_entry: at load factor 0.75 a table for size << 2 entries
\* is built and the entries are inserted again; an occupied slot is overwritten
insert_entry(tbl, entry, val, hf, eq, seed) ==
    IF tbl.entries[entry] = NullPtr
    THEN IF 4 * (tbl.size + 1) >= 3 * tbl.capacity
         THEN TheOne({ insert(t, val, hf, eq, seed) :
                       t \in { Reinsert(new_with_init_size(tbl.size * 4, seed),
                                        tbl, 0, hf, eq, seed) } })
         ELSE [tbl EXCEPT !.entries[entry] = val, !.size = @ + 1]
    ELSE [tbl EXCEPT !.entries[entry] = val]

\* HashTable::get_value_by_str[_unchecked]: NullPtr is None
get_value_by_str(tbl, key_hash, hits) ==
    LET entry == probe(tbl, key_hash, hits)
    IN IF entry = NoSlot THEN NullPtr ELSE tbl.entries[entry]

\* HashTable::get_or_insert_str: the table and the value; new_entry is the
\* object V::new_entry_with_key would allocate
get_or_insert_str(tbl, key_hash, hits, new_entry, hf, eq, seed) ==
    LET entry == probe(tbl, key_hash, hits)
    IN IF entry = NoSlot THEN [table |-> [tbl EXCEPT !.hung = TRUE], value |-> NullPtr]
       ELSE IF tbl.entries[entry] # NullPtr
            THEN [table |-> tbl, value |-> tbl.entries[entry]]
            ELSE [table |-> insert_entry(tbl, entry, new_entry, hf, eq, seed),
                  value |-> new_entry]

\* HashTable::new
HashTableNew(seed) == new_with_init_size(DEFAULT_SIZE, seed)

-----------------------------------------------------------------------------
(***************************************************************************)
(* The bootstrap class registry (classfile/class_loader.rs).               *)
(***************************************************************************)

MaxLoads == 2

\* the class files on the class path, by internal name: java/lang/Object,
\* A extends Object, B extends A; "[LB;" names the array class of B
LoadNames ==
    << << 106, 97, 118, 97, 47, 108, 97, 110, 103, 47, 79, 98, 106, 101, 99, 116 >>,
       << 65 >>, << 66 >>, << 91, 76, 66, 59 >> >>

ObjectName == 1

NoName == 0

\* the names a thread asks load_class for
RequestNames == { n \in DOMAIN LoadNames : n # ObjectName }

\* super_class_index of the class file (0 for java/lang/Object)
SuperName(n) == CASE n = 1 -> NoName [] n = 2 -> 1 [] n = 3 -> 2 [] OTHER -> NoName

\* do_load_class: class_name.starts_with('[') && class_name.len() > 1
IsArrayName(n) == LoadNames[n][1] = 91 /\ Len(LoadNames[n]) > 1

\* do_load_class: the component name, without the leading "[L" and trailing ";"
ComponentName(n) ==
    LET c == IF LoadNames[n][2] = 76
             THEN SubSeq(LoadNames[n], 3, Len(LoadNames[n]) - 1)
             ELSE SubSeq(LoadNames[n], 2, Len(LoadNames[n]))
    IN CHOOSE m \in DOMAIN LoadNames : LoadNames[m] = c

\* Symbol::hash_utf8 of the names (the hash the name's symbol stores)
LoadNameHash == << hash_utf8(LoadNames[1]), hash_utf8(LoadNames[2]),
                   hash_utf8(LoadNames[3]), hash_utf8(LoadNames[4]) >>

\* VMObject for JClass: hash is name().hash_code()
ClassHashes(heap) == [ c \in heap |-> LoadNameHash[c[1]] ]

\* VMObject for JClass: equals is name() == other.name() (interned symbols)
ClassEquals(heap) == { << x, y >> \in heap \X heap : x[1] = y[1] }

\* JClass::new_permanent / new_array_class: a new class object for name n
NewClass(heap, n) == << n, 1 + Cardinality({ c \in heap : c[1] = n }) >>

\* GetEntryWithKey<Utf8String> for JClass: the classes whose name equals_utf8 n
ClassesNamed(heap, n) == { c \in heap : LoadNames[c[1]] = LoadNames[n] }

\* BootstrapClassLoader::find_class
find_class(tbl, heap, n) == get_value_by_str(tbl, LoadNameHash[n], ClassesNamed(heap, n))

RECURSIVE ParseAndInsert(_, _, _, _)
\* do_load_class for a class file, under the cp_entries and loaded_classes
\* locks: parse_class loads the superclass through load_class (find_class, then
\* do_load_class), creates the class and the closure inserts it
ParseAndInsert(tbl, heap, n, seed) ==
    LET sup == SuperName(n)
        s1 == IF sup = NoName \/ find_class(tbl, heap, sup) # NullPtr
              THEN [table |-> tbl, heap |-> heap]
              ELSE ParseAndInsert(tbl, heap, sup, seed)
        result == NewClass(s1.heap, n)
        heap2 == s1.heap \cup { result }
    IN [ table |-> insert(s1.table, result, ClassHashes(heap2), ClassEquals(heap2), seed),
         heap |-> heap2,
         result |-> result ]

LoadFrame(n, pc) == [name |-> n, pc |-> pc, component |-> NullPtr]

\* the registry after VM construction: java/lang/Object is preloaded
InitLoad ==
    /\ \E seed \in HasherSeeds :
          LET st == ParseAndInsert(HashTableNew(seed), {}, ObjectName, seed)
          IN loaded_classes = st.table /\ classHeap = st.heap
    /\ loadStack = [t \in Threads |-> << >>]
    /\ loadsDone = [t \in Threads |-> 0]
    /\ loadLog = {}
    /\ NonLoadIdle

\* load_class returns cls to its caller: the embedder, or the do_load_class
\* activation that asked for the component class
LoadReturn(stack, cls) ==
    LET rest == SubSeq(stack, 1, Len(stack) - 1)
    IN IF rest = << >> THEN rest
       ELSE [rest EXCEPT ![Len(rest)] = [@ EXCEPT !.component = cls, !.pc = "array_insert"]]

LoadLogged(t, cls) ==
    IF Len(loadStack[t]) = 1
    THEN loadLog \cup { [name |-> loadStack[t][1].name, cls |-> cls] }
    ELSE loadLog

LoadTop(t, pc) ==
    /\ loadStack[t] # << >>
    /\ loadStack[t][Len(loadStack[t])].pc = pc
    /\ ~loaded_classes.hung

\* the embedder calls load_class(name)
LoadClass(t, n) ==
    /\ loadStack[t] = << >>
    /\ loadsDone[t] < MaxLoads
    /\ loadsDone' = [loadsDone EXCEPT ![t] = @ + 1]
    /\ loadStack' = [loadStack EXCEPT ![t] = << LoadFrame(n, "find") >>]
    /\ UNCHANGED <<loaded_classes, classHeap, loadLog>>
    /\ UNCHANGED nonLoadVars

\* load_class_depth: if let Some(find_cls) = self.find_class(class_name)
\* { return Ok(find_cls) }, under the loaded_classes lock
LoadFind(t) ==
    /\ LoadTop(t, "find")
    /\ LET f == loadStack[t][Len(loadStack[t])]
           found == find_class(loaded_classes, classHeap, f.name)
       IN IF found # NullPtr
          THEN /\ loadStack' = [loadStack EXCEPT ![t] = LoadReturn(@, found)]
               /\ loadLog' = LoadLogged(t, found)
          ELSE /\ loadStack' = [loadStack EXCEPT ![t][Len(loadStack[t])].pc = "do_load"]
               /\ UNCHANGED loadLog
    /\ UNCHANGED <<loaded_classes, classHeap, loadsDone>>
    /\ UNCHANGED nonLoadVars

\* do_load_class of an array name: self.load_class(component_class_name)
LoadArrayComponent(t) ==
    /\ LoadTop(t, "do_load")
    /\ IsArrayName(loadStack[t][Len(loadStack[t])].name)
    /\ loadStack' = [loadStack EXCEPT ![t] =
            Append(@, LoadFrame(ComponentName(@[Len(@)].name), "find"))]
    /\ UNCHANGED <<loaded_classes, classHeap, loadsDone, loadLog>>
    /\ UNCHANGED nonLoadVars

\* do_load_class of an array name: JClass::new_array_class, then the insert
\* under the loaded_classes lock, return Ok(result)
LoadArrayInsert(t) ==
    /\ LoadTop(t, "array_insert")
    /\ \E seed \in HasherSeeds :
          LET result == NewClass(classHeap, loadStack[t][Len(loadStack[t])].name)
              heap2 == classHeap \cup { result }
          IN /\ classHeap' = heap2
             /\ loaded_classes' = insert(loaded_classes, result, ClassHashes(heap2),
                                         ClassEquals(heap2), seed)
             /\ loadStack' = [loadStack EXCEPT ![t] = LoadReturn(@, result)]
             /\ loadLog' = LoadLogged(t, result)
    /\ UNCHANGED loadsDone
    /\ UNCHANGED nonLoadVars

\* do_load_class of a class file: parse_class and the insert, return Ok(result)
LoadDoLoadClass(t) ==
    /\ LoadTop(t, "do_load")
    /\ ~IsArrayName(loadStack[t][Len(loadStack[t])].name)
    /\ \E seed \in HasherSeeds :
          LET st == ParseAndInsert(loaded_classes, classHeap,
                                   loadStack[t][Len(loadStack[t])].name, seed)
          IN /\ classHeap' = st.heap
             /\ loaded_classes' = st.table
             /\ loadStack' = [loadStack EXCEPT ![t] = LoadReturn(@, st.result)]
             /\ loadLog' = LoadLogged(t, st.result)
    /\ UNCHANGED loadsDone
    /\ UNCHANGED nonLoadVars

NextLoad ==
    \E t \in Threads :
        \/ \E n \in RequestNames : LoadClass(t, n)
        \/ LoadFind(t)
        \/ LoadArrayComponent(t)
        \/ LoadArrayInsert(t)
        \/ LoadDoLoadClass(t)

SpecLoad == InitLoad /\ [][NextLoad]_vars

\* C3: load(name) returns the same class object every time it is called with
\* that name, also when the first loads of the name run concurrently on
\* several threads.
C3_LoadSameClass ==
    \A e1 \in loadLog : \A e2 \in loadLog : e1.name = e2.name => e1.cls = e2.cls

-----------------------------------------------------------------------------
(***************************************************************************)
(* The symbol table (object/symbol.rs).                                    *)
(***************************************************************************)

\* the number of different contents get_or_insert is called with
NSymKeys == 9

\* the contents: "", "a", "b", "ab", "ba", "aa", U+00E9, U+4E2D, U+1F600,
\* "a" U+00E9, "<init>", "()V"
SymPool ==
    << << >>, << 97 >>, << 98 >>, << 97, 98 >>, << 98, 97 >>, << 97, 97 >>,
       << 233 >>, << 20013 >>, << 128512 >>, << 97, 233 >>,
       << 60, 105, 110, 105, 116, 62 >>, << 40, 41, 86 >> >>

SymKeys == 1..NSymKeys

\* Utf8String::from(content): the bytes of each content
SymPoolBytes ==
    << Utf8Bytes(SymPool[1]), Utf8Bytes(SymPool[2]), Utf8Bytes(SymPool[3]),
       Utf8Bytes(SymPool[4]), Utf8Bytes(SymPool[5]), Utf8Bytes(SymPool[6]),
       Utf8Bytes(SymPool[7]), Utf8Bytes(SymPool[8]), Utf8Bytes(SymPool[9]),
       Utf8Bytes(SymPool[10]), Utf8Bytes(SymPool[11]), Utf8Bytes(SymPool[12]) >>

\* GetEntryWithKey<Utf8String> for Symbol: hash_key
SymPoolHash ==
    << hash_utf8(SymPool[1]), hash_utf8(SymPool[2]), hash_utf8(SymPool[3]),
       hash_utf8(SymPool[4]), hash_utf8(SymPool[5]), hash_utf8(SymPool[6]),
       hash_utf8(SymPool[7]), hash_utf8(SymPool[8]), hash_utf8(SymPool[9]),
       hash_utf8(SymPool[10]), hash_utf8(SymPool[11]), hash_utf8(SymPool[12]) >>

\* HeapString::equals_utf8: self.as_str() == ref_str.value
equals_utf8(sym, bytes) == sym.bytes = bytes

\* VMObject for HeapString: hash
SymbolHashes(heap) == [ s \in DOMAIN heap |-> heap[s].hash ]

\* VMObject for HeapString: equals (the same object, or equal as_str())
SymbolEquals(heap) ==
    { << x, y >> \in (DOMAIN heap) \X (DOMAIN heap) :
        x = y \/ heap[x].bytes = heap[y].bytes }

\* HeapString::new_with_hash: a new symbol object for content k
NewSymbol(heap, k) == << k, 1 + Cardinality({ s \in DOMAIN heap : s[1] = k }) >>

\* insert_entry will build a new table (and draw a new hasher) for one more entry
WillResize(tbl) == 4 * (tbl.size + 1) >= 3 * tbl.capacity

\* the hashers an operation may draw: get_hasher runs only when an entry is
\* added (found is NullPtr) and the table is rebuilt
SeedsFor(tbl, found) ==
    IF found = NullPtr /\ WillResize(tbl) THEN HasherSeeds ELSE { << 1, 0 >> }

\* GetEntryWithKey<Utf8String> for Symbol: the symbols entry_equals_key accepts
SymbolsWith(heap, bytes) == { s \in DOMAIN heap : equals_utf8(heap[s], bytes) }

InitSym ==
    /\ \E seed \in HasherSeeds : symbol_table = HashTableNew(seed)
    /\ symHeap = << >>
    /\ symLog = {}
    /\ symBorn = << >>
    /\ symRevisit = FALSE
    /\ NonSymIdle

\* SymbolTable::get_or_insert(content), under the write lock of the table
SymGetOrInsert(k) ==
    /\ ~symbol_table.hung
    /\ \E seed \in SeedsFor(symbol_table,
                            get_value_by_str(symbol_table, SymPoolHash[k],
                                SymbolsWith(symHeap, SymPoolBytes[k]))) :
          LET new_entry == NewSymbol(symHeap, k)
              heap2 == [ s \in (DOMAIN symHeap) \cup { new_entry } |->
                           IF s = new_entry
                           THEN [bytes |-> SymPoolBytes[k], hash |-> SymPoolHash[k]]
                           ELSE symHeap[s] ]
              hits == SymbolsWith(symHeap, SymPoolBytes[k])
          IN \E r \in { get_or_insert_str(symbol_table, SymPoolHash[k], hits, new_entry,
                                          SymbolHashes(heap2), SymbolEquals(heap2), seed) } :
                /\ symbol_table' = r.table
                /\ ~r.table.hung
                /\ symHeap' = IF r.value = new_entry THEN heap2 ELSE symHeap
                /\ symLog' = symLog \cup { [key |-> k, sym |-> r.value] }
                /\ symBorn' = IF r.value = new_entry
                              THEN [ s \in DOMAIN heap2 |->
                                       IF s = new_entry THEN r.table.capacity ELSE symBorn[s] ]
                              ELSE symBorn
                /\ symRevisit' = (symRevisit \/ (r.value # new_entry
                                                 /\ symBorn[r.value] < r.table.capacity))
    /\ UNCHANGED nonSymVars

NextSym == \E k \in SymKeys : SymGetOrInsert(k)

SpecSym == InitSym /\ [][NextSym]_vars

\* C4: over any sequence of get_or_insert calls, resizing ones included, the
\* symbol pointers returned for two contents are equal if and only if the
\* contents have equal bytes.
C4_SymbolIdentity ==
    \A e1 \in symLog : \A e2 \in symLog :
        (e1.sym = e2.sym) <=> (SymPoolBytes[e1.key] = SymPoolBytes[e2.key])

\* a content interned in the first table was looked up again after the resize
\* and the same symbol came back
C4_Witness ==
    /\ symRevisit
    /\ symbol_table.capacity > 11
    /\ \A k \in SymKeys : Cardinality({ e \in symLog : e.key = k }) <= 1

-----------------------------------------------------------------------------
(***************************************************************************)
(* The string table (object/symbol.rs): interning by UTF-16 content, by an *)
(* existing java.lang.String, and the strings of CONSTANT_String entries   *)
(* (from_symbol, called by ldc).                                           *)
(***************************************************************************)

\* the number of different contents, and the number of strings the table holds
NStrKeys == 3
MaxStrEntries == 10

\* the contents: U+1F600, "a", "b", "ab", U+00E9
StrPool == << << 128512 >>, << 97 >>, << 98 >>, << 97, 98 >>, << 233 >> >>

StrKeys == 1..NStrKeys

\* JString::str_to_utf16 / HeapString::to_utf16 of each content
StrUnits ==
    << EncodeUtf16(StrPool[1]), EncodeUtf16(StrPool[2]), EncodeUtf16(StrPool[3]),
       EncodeUtf16(StrPool[4]), EncodeUtf16(StrPool[5]) >>

\* GetEntryWithKey<&Utf16String / JCharArrayPtr> for JString: hash_key
StrHash16 ==
    << hash_utf16(StrUnits[1]), hash_utf16(StrUnits[2]), hash_utf16(StrUnits[3]),
       hash_utf16(StrUnits[4]), hash_utf16(StrUnits[5]) >>

\* GetEntryWithKey<SymbolPtr> for JString: hash_key is the symbol's hash_code()
StrHash8 ==
    << hash_utf8(StrPool[1]), hash_utf8(StrPool[2]), hash_utf8(StrPool[3]),
       hash_utf8(StrPool[4]), hash_utf8(StrPool[5]) >>

\* a UTF-16 unit read through Ptr<i16>
ToI16(u) == IF u >= 32768 THEN u - 65536 ELSE u

\* HeapString::equals_utf16_ptr: the code points of the symbol against the units
equals_utf16_ptr(chars, target) ==
    /\ Len(chars) = Len(target)
    /\ \A i \in 1..Len(chars) : ToI16(target[i]) = chars[i]

\* JString::equals_utf16 / JString::equals_chars
equals_chars(units1, units2) ==
    /\ Len(units1) = Len(units2)
    /\ \A i \in 1..Len(units1) : units1[i] = units2[i]

\* VMObject for JString: hash is the hash of the object header
JStringHashes(heap) == [ j \in DOMAIN heap |-> heap[j].hash ]

\* VMObject for JString: equals (the same object, or the same char[] object)
JStringEquals(heap) ==
    { << x, y >> \in (DOMAIN heap) \X (DOMAIN heap) :
        x = y \/ heap[x].value = heap[y].value }

\* Object::new_permanent_with_hash: a new String object for content k
NewJString(heap, k) == << k, 1 + Cardinality({ j \in DOMAIN heap : j[1] = k }) >>

\* JArray::new / new_permanent: a new char[] for content k
NewCharArray(cheap, k) == << k, 1 + Cardinality({ c \in DOMAIN cheap : c[1] = k }) >>

\* the heap with one more object
WithObject(heap, ptr, obj) ==
    [ x \in (DOMAIN heap) \cup { ptr } |-> IF x = ptr THEN obj ELSE heap[x] ]

\* the strings whose char[] holds the given units
StringsWithUnits(heap, cheap, units) ==
    { j \in DOMAIN heap : equals_chars(cheap[heap[j].value], units) }

\* the strings whose char[] equals_utf16_ptr the symbol's code points
StringsOfSymbol(heap, cheap, chars) ==
    { j \in DOMAIN heap : equals_utf16_ptr(chars, cheap[heap[j].value]) }

InitStr ==
    /\ \E seed \in HasherSeeds : string_table = HashTableNew(seed)
    /\ strHeap = << >>
    /\ charHeap = << >>
    /\ strLog = {}
    /\ fromSymLog = {}
    /\ NonStrIdle

\* get_or_insert_str with a key of UTF-16 units held in (or copied to) the
\* char[] arr: the entry found, or a new String over arr
StrIntern(k, units, arr, cheap2) ==
    LET hits == StringsWithUnits(strHeap, charHeap, units)
        key_hash == hash_utf16(units)
    IN \E seed \in SeedsFor(string_table, get_value_by_str(string_table, key_hash, hits)) :
          LET new_entry == NewJString(strHeap, k)
              heap2 == WithObject(strHeap, new_entry, [value |-> arr, hash |-> key_hash])
          IN \E r \in { get_or_insert_str(string_table, key_hash, hits, new_entry,
                                          JStringHashes(heap2), JStringEquals(heap2), seed) } :
                /\ ~r.table.hung
                /\ r.table.size <= MaxStrEntries
                /\ string_table' = r.table
                /\ strHeap' = IF r.value = new_entry THEN heap2 ELSE strHeap
                /\ charHeap' = IF r.value = new_entry THEN cheap2 ELSE charHeap
                /\ strLog' = strLog \cup { [key |-> k, str |-> r.value] }
                /\ UNCHANGED fromSymLog

\* StringTable::get_or_insert_str(val): a new entry gets its own char[] copy of val
StrGetOrInsertStr(k) ==
    /\ ~string_table.hung
    /\ LET arr == NewCharArray(charHeap, k)
       IN StrIntern(k, StrUnits[k], arr, WithObject(charHeap, arr, StrUnits[k]))
    /\ UNCHANGED nonStrVars

\* StringTable::intern_jstr(jstr) for a String that is not in the table (made
\* by new String(..) with content k): a new entry shares the char[] of jstr
StrInternNewJstr(k) ==
    /\ ~string_table.hung
    /\ LET arr == NewCharArray(charHeap, k)
           cheap2 == WithObject(charHeap, arr, StrUnits[k])
       IN StrIntern(k, cheap2[arr], arr, cheap2)
    /\ UNCHANGED nonStrVars

\* StringTable::intern_jstr(jstr) for a String the table created earlier
StrInternOldJstr(j) ==
    /\ ~string_table.hung
    /\ StrIntern(j[1], charHeap[strHeap[j].value], strHeap[j].value, charHeap)
    /\ UNCHANGED nonStrVars

\* StringTable::from_symbol(symbol) for the symbol of content k (ldc)
StrFromSymbol(k) ==
    /\ ~string_table.hung
    /\ LET chars == Utf8Chars(Utf8Bytes(StrPool[k]))
           found == get_value_by_str(string_table, StrHash8[k],
                                     StringsOfSymbol(strHeap, charHeap, chars))
           value == NewCharArray(charHeap, k)
           result_obj == NewJString(strHeap, k)
           heap2 == WithObject(strHeap, result_obj, [value |-> value, hash |-> StrHash8[k]])
       IN IF found # NullPtr
          THEN /\ fromSymLog' = fromSymLog \cup { [key |-> k, str |-> found] }
               /\ UNCHANGED <<string_table, strHeap, charHeap, strLog>>
          ELSE \E seed \in SeedsFor(string_table, NullPtr) :
                 \E t \in { insert(string_table, result_obj, JStringHashes(heap2),
                                   JStringEquals(heap2), seed) } :
                    /\ ~t.hung
                    /\ t.size <= MaxStrEntries
                    /\ string_table' = t
                    /\ strHeap' = heap2
                    /\ charHeap' = WithObject(charHeap, value, EncodeUtf16(chars))
                    /\ fromSymLog' = fromSymLog \cup { [key |-> k, str |-> result_obj] }
                    /\ UNCHANGED strLog
    /\ UNCHANGED nonStrVars

NextStr ==
    \/ \E k \in StrKeys : StrGetOrInsertStr(k)
    \/ \E k \in StrKeys : StrInternNewJstr(k)
    \/ \E j \in DOMAIN strHeap : StrInternOldJstr(j)
    \/ \E k \in StrKeys : StrFromSymbol(k)

SpecStr == InitStr /\ [][NextStr]_vars

\* C5: intern(s) returns a string whose char[] content equals s, and it is the
\* same object as the one every earlier intern of equal content returned,
\* whether the content was interned by value or through an existing String.
C5_InternIdentity ==
    /\ \A e \in strLog : equals_chars(charHeap[strHeap[e.str].value], StrUnits[e.key])
    /\ \A e1 \in strLog : \A e2 \in strLog :
          equals_chars(StrUnits[e1.key], StrUnits[e2.key]) => e1.str = e2.str

-----------------------------------------------------------------------------
(***************************************************************************)
(* Field layout: ClassFileParser::parse_fields gives every field an offset *)
(* inside its region (FieldLayout), JClass::link moves the offsets behind  *)
(* the object header and the superclass, or into the class object          *)
(* (adjust_fields).                                                        *)
(***************************************************************************)

\* the number of classes and the number of fields they declare together, where
\* every class before the one being parsed counts as ClassWeight fields
NLayoutClasses == 2
MaxFields == 6
ClassWeight == 3

FIELD_ALIGNMENT == 8
POINTER_SIZE == 8

\* std::mem::size_of of Object (the header), JClass, ClassData and VTable
SizeOfObject == 16
SizeOfJClass == 32
SizeOfClassData == 96
SizeOfVTable == 12
SizeOfIMethodIndex == 4

\* the instance size of java.lang.Class, set by SharedObjects::bootstrap
java_lang_class_inst_size == 24

\* the value sizes of the field descriptors
FieldSizes == { 1, 2, 4, 8 }

U16(x) == x % 65536

\* memory::align
align(size) == ((size + POINTER_SIZE - 1) \div POINTER_SIZE) * POINTER_SIZE

METHODS_OFFSET == align(SizeOfVTable)

\* VTable::size and VTable::itable_size
VTableSize(vtab_len, ifaces_len, ifaces_m_indexes_len) ==
    (METHODS_OFFSET + (POINTER_SIZE * vtab_len))
        + ((POINTER_SIZE * ifaces_len) + (SizeOfIMethodIndex * ifaces_m_indexes_len))

\* ClassData::size
ClassDataSize(vtab_len, ifaces_len, ifaces_m_indexes_len) ==
    align(SizeOfClassData + VTableSize(vtab_len, ifaces_len, ifaces_m_indexes_len))

class_non_static_offset == SizeOfJClass

class_data_offset(jl_inst_size) == class_non_static_offset + jl_inst_size

class_static_fields_offset(jl_inst_size, vtab_len, ifaces_len, ifaces_m_indexes_len) ==
    class_data_offset(jl_inst_size) + ClassDataSize(vtab_len, ifaces_len, ifaces_m_indexes_len)

\* JClass::size: the size of the class object
JClassSize(jl_inst_size, static_fields_size, vtab_len, ifaces_len, ifaces_m_indexes_len) ==
    class_static_fields_offset(jl_inst_size, vtab_len, ifaces_len, ifaces_m_indexes_len)
        + static_fields_size

\* FieldLayout::default
FieldLayoutDefault == [padding |-> 0, offset |-> 0, aligned_offset |-> 0]

\* FieldLayout::obtain_field_offset: the layout afterwards and the offset returned
obtain_field_offset(self, field_val_size) ==
    IF self.padding >= field_val_size
    THEN [layout |-> [padding |-> U16(self.padding - field_val_size),
                      offset |-> U16(self.offset + field_val_size),
                      aligned_offset |-> self.aligned_offset],
          ret |-> self.offset]
    ELSE IF field_val_size < FIELD_ALIGNMENT
    THEN [layout |-> [padding |-> U16(FIELD_ALIGNMENT - field_val_size),
                      offset |-> U16(self.offset + field_val_size),
                      aligned_offset |-> U16(self.aligned_offset + FIELD_ALIGNMENT)],
          ret |-> self.aligned_offset]
    ELSE [layout |-> [padding |-> 0,
                      offset |-> U16(self.aligned_offset + field_val_size),
                      aligned_offset |-> U16(self.aligned_offset + field_val_size)],
          ret |-> self.aligned_offset]

\* FieldLayout::get_aligned_size
get_aligned_size(self) == self.aligned_offset

\* the fields declared by the classes created and by the class being parsed
FieldsDeclared ==
    LET RECURSIVE Sum(_)
        Sum(i) == IF i = 0 THEN 0 ELSE Len(layClasses[i].fields) + Sum(i - 1)
    IN Sum(Len(layClasses)) + (IF layParser = << >> THEN 0 ELSE Len(layParser.fields))

\* the length of the vtable of a class that declares one new virtual method
VtabLenOf(classes, is_interface, super_class) ==
    IF is_interface THEN 0
    ELSE IF super_class = 0 THEN 1
    ELSE classes[super_class].vtab_len + 1

InitLay ==
    /\ layClasses = << >>
    /\ layParser = << >>
    /\ NonLayIdle

\* a class file with one more field is within the bounds
MayDeclareField == FieldsDeclared + (ClassWeight * Len(layClasses)) < MaxFields

\* ClassFileParser::parse_class up to parse_fields: the access flags and the
\* superclass (0: none), which is loaded by now
LayParseClass(is_interface, super_class) ==
    /\ layParser = << >>
    /\ Len(layClasses) < NLayoutClasses
    /\ MayDeclareField
    /\ super_class # 0 => ~layClasses[super_class].is_interface
    /\ is_interface => super_class = 0
    /\ layParser' = [is_interface |-> is_interface, super_class |-> super_class,
                     fields |-> << >>,
                     static_fields_layout |-> FieldLayoutDefault,
                     inst_fields_layout |-> FieldLayoutDefault]
    /\ UNCHANGED layClasses
    /\ UNCHANGED nonLayVars

\* parse_fields: one round of the loop over the fields of the class file
LayParseField(is_static, field_val_size) ==
    /\ layParser # << >>
    /\ MayDeclareField
    /\ layParser.is_interface => is_static
    /\ LET r == IF is_static
                THEN obtain_field_offset(layParser.static_fields_layout, field_val_size)
                ELSE obtain_field_offset(layParser.inst_fields_layout, field_val_size)
           field == [is_static |-> is_static, size |-> field_val_size,
                     layout_offset |-> r.ret]
       IN layParser' =
            [layParser EXCEPT
                !.fields = Append(@, field),
                !.static_fields_layout = IF is_static THEN r.layout ELSE @,
                !.inst_fields_layout = IF is_static THEN @ ELSE r.layout]
    /\ UNCHANGED layClasses
    /\ UNCHANGED nonLayVars

\* the end of parse_fields and JClass::new_permanent: the class in state Created
LayNewClass ==
    /\ layParser # << >>
    /\ layClasses' = Append(layClasses,
         [is_interface |-> layParser.is_interface,
          super_class |-> layParser.super_class,
          fields |-> layParser.fields,
          static_fields_size |-> get_aligned_size(layParser.static_fields_layout),
          inst_or_ele_size |-> get_aligned_size(layParser.inst_fields_layout),
          vtab_len |-> VtabLenOf(layClasses, layParser.is_interface, layParser.super_class),
          linked |-> FALSE])
    /\ layParser' = << >>
    /\ UNCHANGED nonLayVars

\* JClass::adjust_fields
adjust_fields(classes, c) ==
    LET self == classes[c]
        super_inst_size == IF self.super_class # 0
                           THEN classes[self.super_class].inst_or_ele_size ELSE 0
        non_static_fields_offset == U16(SizeOfObject + super_inst_size)
        static_fields_offset ==
            U16(class_static_fields_offset(java_lang_class_inst_size, self.vtab_len, 0, 0))
    IN [classes EXCEPT
          ![c].inst_or_ele_size = U16(@ + super_inst_size),
          ![c].fields =
              [i \in 1..Len(self.fields) |->
                  [self.fields[i] EXCEPT
                      !.layout_offset =
                          IF self.fields[i].is_static
                          THEN U16(@ + static_fields_offset)
                          ELSE U16(@ + non_static_fields_offset)]]]

\* JClass::link: the classes afterwards
RECURSIVE link(_, _)
link(classes, c) ==
    IF classes[c].is_interface
    THEN [classes EXCEPT ![c].linked = TRUE]
    ELSE LET super_class == classes[c].super_class
             linked_super == IF super_class # 0 /\ ~classes[super_class].linked
                             THEN link(classes, super_class)
                             ELSE classes
         IN [adjust_fields(linked_super, c) EXCEPT ![c].linked = TRUE]

\* JClass::initialize of a class in state Created: self.link(thread)
LayLink(c) ==
    /\ ~layClasses[c].linked
    /\ layClasses' = link(layClasses, c)
    /\ UNCHANGED layParser
    /\ UNCHANGED nonLayVars

NextLay ==
    \/ \E is_interface \in BOOLEAN : \E super_class \in 0..Len(layClasses) :
          LayParseClass(is_interface, super_class)
    \/ \E is_static \in BOOLEAN : \E field_val_size \in FieldSizes :
          LayParseField(is_static, field_val_size)
    \/ LayNewClass
    \/ \E c \in 1..Len(layClasses) : LayLink(c)

SpecLay == InitLay /\ [][NextLay]_vars

\* C6: in every class, no two instance fields have the same layout_offset and
\* no two static fields have the same layout_offset, whatever the sequence of
\* declared fields of sizes 1, 2, 4 and 8.
C6_FieldOffsetsDistinct ==
    \A c \in 1..Len(layClasses) :
       \A i \in 1..Len(layClasses[c].fields) : \A j \in 1..Len(layClasses[c].fields) :
          (/\ i # j
           /\ layClasses[c].fields[i].is_static = layClasses[c].fields[j].is_static)
             => layClasses[c].fields[i].layout_offset # layClasses[c].fields[j].layout_offset

\* the static-field region of the class object of c: first byte and end
StaticRegionStart(c) ==
    class_static_fields_offset(java_lang_class_inst_size, layClasses[c].vtab_len, 0, 0)

StaticRegionEnd(c) ==
    JClassSize(java_lang_class_inst_size, layClasses[c].static_fields_size,
               layClasses[c].vtab_len, 0, 0)

\* C7: after linking, for every class or interface, the bytes of each instance
\* field lie inside the instance (behind the header, before the instance
\* size), and the bytes of each static field lie inside the static-field
\* region of the class object.
C7_FieldsInsideRegion ==
    \A c \in 1..Len(layClasses) :
       layClasses[c].linked =>
          \A i \in 1..Len(layClasses[c].fields) :
             LET f == layClasses[c].fields[i]
             IN IF f.is_static
                THEN /\ StaticRegionStart(c) <= f.layout_offset
                     /\ f.layout_offset + f.size <= StaticRegionEnd(c)
                ELSE /\ SizeOfObject <= f.layout_offset
                     /\ f.layout_offset + f.size <= SizeOfObject + layClasses[c].inst_or_ele_size

-----------------------------------------------------------------------------
(***************************************************************************)
(* Method tables: the VTable block of a class (methods, interface          *)
(* pointers, method indexes of the interfaces), sized and filled when the  *)
(* class file is parsed (obtain_vtab_info, JClass::new_permanent), filled  *)
(* again when the class is linked (VTable::initialize), and read by        *)
(* invokevirtual and invokeinterface.                                      *)
(***************************************************************************)

\* the number of methods the class files declare together
MaxVtMethods == 4

\* the class files, in the order they are loaded, and the names (with
\* descriptors) of their methods
VtClassNames == << "java/lang/Object", "A", "B", "C" >>

VtNamePool == << "f", "g" >>

VtNames == { VtNamePool[i] : i \in 1..Len(VtNamePool) }

\* a method is named by its class and its place in the methods array of the class
NullMethod == << 0, 0 >>

\* java/lang/Object: no superclass, one public method
ObjectMethods == << [name |-> "hashCode", access |-> "public"] >>

\* the methods of a class file that declares the names as decl says, in the
\* order of the pool
DeclaredMethods(decl) ==
    SelectSeq([i \in 1..Len(VtNamePool) |-> [name |-> VtNamePool[i], access |-> decl[VtNamePool[i]]]],
              LAMBDA m : m.access # "none")

\* the interfaces of a class file: the set, listed by class number
RECURSIVE DeclaredInterfaces(_)
DeclaredInterfaces(S) ==
    IF S = {} THEN << >>
    ELSE LET least == CHOOSE x \in S : \A y \in S : x <= y
         IN << least >> \o DeclaredInterfaces(S \ { least })

VtMethod(classes, ref) == classes[ref[1]].methods[ref[2]]

\* VTable::method_is_not_vtab_member (no static methods and constructors here)
method_is_not_vtab_member(method) == method.access = "private"

RECURSIVE FindFrom(_, _, _, _, _)
FindFrom(classes, name, methods, methods_len, m_idx) ==
    IF m_idx >= methods_len THEN 0 - 1
    ELSE IF VtMethod(classes, methods[m_idx + 1]).name = name THEN m_idx
    ELSE FindFrom(classes, name, methods, methods_len, m_idx + 1)

\* a find_method that never finds an override
find_methodNever(classes, current_method, methods, methods_len) == 0 - 1

\* VTable::find_method
find_method(classes, current_method, methods, methods_len) ==
    FindFrom(classes, VtMethod(classes, current_method).name, methods, methods_len, 0)

\* VTable::get_method_override_idx
get_method_override_idx(classes, current_method, methods) ==
    IF VtMethod(classes, current_method).access = "private" THEN 0 - 1
    ELSE FindFrom(classes, VtMethod(classes, current_method).name, methods, Len(methods), 0)

\* VTableInfo::default
VTableInfoDefault == [methods |-> << >>, ifaces |-> << >>, ifaces_m_indexes |-> << >>]

\* obtain_vtab_info: the loop over the methods of class c
RECURSIVE InfoOwnMethods(_, _, _, _)
InfoOwnMethods(classes, c, m_idx, methods) ==
    IF m_idx >= Len(classes[c].methods) THEN methods
    ELSE LET method == << c, m_idx + 1 >>
             override_idx == get_method_override_idx(classes, method, methods)
         IN InfoOwnMethods(classes, c, m_idx + 1,
              IF method_is_not_vtab_member(VtMethod(classes, method)) THEN methods
              ELSE IF classes[c].super_class # 0 /\ override_idx # 0 - 1
              THEN [methods EXCEPT ![override_idx + 1] = method]
              ELSE Append(methods, method))

\* obtain_itable: the loop over the methods of one interface
RECURSIVE InfoIfaceMethods(_, _, _, _)
InfoIfaceMethods(classes, iface, iface_m_idx, info) ==
    IF iface_m_idx >= Len(classes[iface].methods) THEN info
    ELSE LET iface_method == << iface, iface_m_idx + 1 >>
             impl_idx == find_method(classes, iface_method, info.methods, Len(info.methods))
         IN InfoIfaceMethods(classes, iface, iface_m_idx + 1,
              IF impl_idx # 0 - 1
              THEN [info EXCEPT !.ifaces_m_indexes = Append(@, impl_idx)]
              ELSE [info EXCEPT !.ifaces_m_indexes = Append(@, Len(info.methods)),
                                !.methods = Append(@, iface_method)])

\* obtain_itable: the inner loop, from iface along super_class while that is an interface
RECURSIVE InfoIfaceChain(_, _, _)
InfoIfaceChain(classes, iface, info) ==
    LET pushed == InfoIfaceMethods(classes, iface, 0, [info EXCEPT !.ifaces = Append(@, iface)])
        super_class == classes[iface].super_class
    IN IF super_class = 0 \/ ~classes[super_class].is_interface THEN pushed
       ELSE InfoIfaceChain(classes, super_class, pushed)

\* VTable::obtain_itable
RECURSIVE obtain_itable(_, _, _, _)
obtain_itable(classes, interfaces, if_idx, info) ==
    IF if_idx >= Len(interfaces) THEN info
    ELSE obtain_itable(classes, interfaces, if_idx + 1,
                       InfoIfaceChain(classes, interfaces[if_idx + 1], info))

\* VTable::obtain_vtab_info for class c
obtain_vtab_info(classes, c) ==
    LET super_class == classes[c].super_class
        inherited == IF super_class # 0
                     THEN SubSeq(classes[super_class].vtab_methods, 1,
                                 classes[super_class].vtab_len)
                     ELSE << >>
        info == [VTableInfoDefault EXCEPT !.methods = InfoOwnMethods(classes, c, 0, inherited)]
    IN IF Len(classes[c].interfaces) > 0
       THEN obtain_itable(classes, classes[c].interfaces, 0, info)
       ELSE info

\* ClassFileParser::parse_class and JClass::new_permanent: the classes with one
\* more class, its VTable block allocated for vtab_info and filled from it
NewClassIn(classes, is_interface, super_class, interfaces, methods) ==
    LET c == Len(classes) + 1
        parsed == Append(classes,
                    [name |-> VtClassNames[c],
                     is_interface |-> is_interface, super_class |-> super_class,
                     interfaces |-> interfaces, methods |-> methods,
                     vtab_len |-> 0, ifaces_len |-> 0, ifaces_methods_len |-> 0,
                     vtab_methods |-> << >>, vtab_ifaces |-> << >>,
                     imethod_indexes |-> << >>, overflow |-> FALSE, linked |-> FALSE])
        vtab_info == IF is_interface THEN VTableInfoDefault ELSE obtain_vtab_info(parsed, c)
    IN [parsed EXCEPT
          ![c].vtab_len = Len(vtab_info.methods),
          ![c].ifaces_len = Len(vtab_info.ifaces),
          ![c].ifaces_methods_len = Len(vtab_info.ifaces_m_indexes),
          ![c].vtab_methods = vtab_info.methods,
          ![c].vtab_ifaces = vtab_info.ifaces,
          ![c].imethod_indexes = vtab_info.ifaces_m_indexes]

\* a write through a pointer into an array of the VTable block
PutAt(arr, i, v) == IF i < Len(arr) THEN [arr EXCEPT ![i + 1] = v] ELSE arr

\* std::ptr::copy of the first n entries of src to arr
CopyPrefix(arr, src, n) == [i \in 1..Len(arr) |-> IF i <= n THEN src[i] ELSE arr[i]]

\* a loop that lays the methods of class c from slot 0 of its vtable, over the
\* slots copied from the superclass
InitOwnMethodsFromZero(classes, c, m_idx, w) ==
    [w EXCEPT !.vtab_methods =
        [i \in 1..Len(w.vtab_methods) |->
            IF i <= Len(classes[c].methods) THEN << c, i >> ELSE w.vtab_methods[i]]]

\* VTable::initialize: the loop over the methods of class c
RECURSIVE InitOwnMethods(_, _, _, _)
InitOwnMethods(classes, c, m_idx, w) ==
    IF m_idx >= Len(classes[c].methods) THEN w
    ELSE LET method == << c, m_idx + 1 >>
             super_class == classes[c].super_class
             overridden_m_idx ==
                 IF super_class = 0 THEN 0 - 1
                 ELSE find_method(classes, method, classes[super_class].vtab_methods,
                                  classes[super_class].vtab_len)
         IN InitOwnMethods(classes, c, m_idx + 1,
              IF method_is_not_vtab_member(VtMethod(classes, method)) THEN w
              ELSE IF overridden_m_idx # 0 - 1
              THEN [w EXCEPT !.vtab_methods = PutAt(@, overridden_m_idx, method),
                             !.overflow = @ \/ overridden_m_idx >= Len(w.vtab_methods)]
              ELSE [w EXCEPT !.vtab_methods = PutAt(@, w.vtab_offset, method),
                             !.vtab_offset = @ + 1,
                             !.overflow = @ \/ w.vtab_offset >= Len(w.vtab_methods)])

\* VTable::init_itable: the loop over the methods of one interface
RECURSIVE InitIfaceMethods(_, _, _, _)
InitIfaceMethods(classes, iface, iface_m_idx, w) ==
    IF iface_m_idx >= Len(classes[iface].methods) THEN w
    ELSE LET iface_m == << iface, iface_m_idx + 1 >>
             override_idx == find_method(classes, iface_m, w.vtab_methods, w.vtab_offset)
         IN InitIfaceMethods(classes, iface, iface_m_idx + 1,
              IF w.vtab_offset > 0
              THEN [w EXCEPT
                      !.vtab_offset = IF override_idx # 0 - 1 THEN @ ELSE @ + 1,
                      !.imethod_indexes =
                          PutAt(@, w.imethod_offset,
                                IF override_idx # 0 - 1 THEN override_idx ELSE w.vtab_offset),
                      !.imethod_offset = @ + 1,
                      !.overflow = @ \/ w.imethod_offset >= Len(w.imethod_indexes)]
              ELSE [w EXCEPT
                      !.vtab_methods = PutAt(@, 0, iface_m),
                      !.imethod_indexes = PutAt(@, 0, 0),
                      !.vtab_offset = @ + 1,
                      !.imethod_offset = @ + 1,
                      !.overflow = @ \/ Len(w.vtab_methods) = 0 \/ Len(w.imethod_indexes) = 0])

\* VTable::init_itable: the inner loop, from iface along super_class while that
\* is an interface
RECURSIVE InitIfaceChain(_, _, _)
InitIfaceChain(classes, iface, w) ==
    LET stored == InitIfaceMethods(classes, iface, 0,
                     [w EXCEPT !.vtab_ifaces = PutAt(@, w.vtab_ifaces_offset, iface),
                               !.vtab_ifaces_offset = @ + 1,
                               !.overflow = @ \/ w.vtab_ifaces_offset >= Len(w.vtab_ifaces)])
        super_class == classes[iface].super_class
    IN IF super_class = 0 \/ ~classes[super_class].is_interface THEN stored
       ELSE InitIfaceChain(classes, super_class, stored)

\* VTable::init_itable
RECURSIVE init_itable(_, _, _, _)
init_itable(classes, interfaces, iface_idx, w) ==
    IF iface_idx >= Len(interfaces) THEN w
    ELSE init_itable(classes, interfaces, iface_idx + 1,
                     InitIfaceChain(classes, interfaces[iface_idx + 1], w))

\* VTable::initialize for class c: the class with its VTable block written again
vtab_initialize(classes, c) ==
    LET self == classes[c]
        super_class == self.super_class
        super_vtab_len == IF super_class = 0 THEN 0 ELSE classes[super_class].vtab_len
        w0 == [vtab_methods |-> IF super_class = 0 THEN self.vtab_methods
                                ELSE CopyPrefix(self.vtab_methods,
                                                classes[super_class].vtab_methods,
                                                super_vtab_len),
               vtab_offset |-> super_vtab_len,
               vtab_ifaces |-> self.vtab_ifaces, vtab_ifaces_offset |-> 0,
               imethod_indexes |-> self.imethod_indexes, imethod_offset |-> 0,
               overflow |-> self.overflow \/ super_vtab_len > Len(self.vtab_methods)]
        w1 == InitOwnMethods(classes, c, 0, w0)
        w2 == IF Len(self.interfaces) > 0 THEN init_itable(classes, self.interfaces, 0, w1)
              ELSE w1
    IN [self EXCEPT !.vtab_methods = w2.vtab_methods, !.vtab_ifaces = w2.vtab_ifaces,
                    !.imethod_indexes = w2.imethod_indexes, !.overflow = w2.overflow]

\* JClass::link with ClassData::initialize: the classes afterwards
RECURSIVE link_vtab(_, _)
link_vtab(classes, c) ==
    IF classes[c].is_interface
    THEN [classes EXCEPT ![c].linked = TRUE]
    ELSE LET super_class == classes[c].super_class
             linked_super == IF super_class # 0 /\ ~classes[super_class].linked
                             THEN link_vtab(classes, super_class)
                             ELSE classes
         IN [linked_super EXCEPT ![c] = [vtab_initialize(linked_super, c) EXCEPT !.linked = TRUE]]

\* Result<ResolvedMethod, MethodResolutionError>
ResolvedOk(method, method_idx) == [err |-> "", method |-> method, method_idx |-> method_idx]

ResolvedErr(e) == [err |-> e, method |-> NullMethod, method_idx |-> 0 - 1]

\* JClass::resolve_local_method: the index of the method in the methods array
RECURSIVE resolve_local_method(_, _, _)
resolve_local_method(methods, name, idx) ==
    IF idx >= Len(methods) THEN 0 - 1
    ELSE IF methods[idx + 1].name = name THEN idx
    ELSE resolve_local_method(methods, name, idx + 1)

\* JClass::resolve_interface_method: the loop from class cur along super_class
RECURSIVE ResolveInterfaceFrom(_, _, _, _, _)
ResolveInterfaceFrom(classes, class, cur, iface, name) ==
    LET vtab == classes[cur]
        imethod_indexes_offset == 0
        imethod_idx == resolve_local_method(classes[iface].methods, name, 0)
        v_method_idx == vtab.imethod_indexes[imethod_indexes_offset + imethod_idx + 1]
    IN IF \E if_idx \in 1..vtab.ifaces_len : vtab.vtab_ifaces[if_idx] = iface
       THEN IF imethod_idx >= 0
            THEN ResolvedOk(classes[class].vtab_methods[v_method_idx + 1], v_method_idx)
            ELSE ResolvedErr("NoSuchMethod")
       ELSE IF vtab.super_class # 0
       THEN ResolveInterfaceFrom(classes, class, vtab.super_class, iface, name)
       ELSE ResolvedErr("IncompatibleClassChange")

resolve_interface_method(classes, class, iface, name) ==
    ResolveInterfaceFrom(classes, class, class, iface, name)

\* JClass::resolve_class_method
resolve_class_method(classes, cls, name) ==
    LET idx == FindFrom(classes, name, classes[cls].vtab_methods, classes[cls].vtab_len, 0)
    IN IF idx # 0 - 1 THEN ResolvedOk(classes[cls].vtab_methods[idx + 1], idx)
       ELSE ResolvedErr("NoSuchMethod")

\* JClass::resolve_virtual_with_index
resolve_virtual_with_index(classes, objcls, method, method_idx) ==
    IF method_idx >= classes[objcls].vtab_len THEN ResolvedErr("AbstractMethod")
    ELSE LET resolved_method == classes[objcls].vtab_methods[method_idx + 1]
         IN IF VtMethod(classes, resolved_method).name # VtMethod(classes, method).name
            THEN ResolvedErr("AbstractMethod")
            ELSE IF VtMethod(classes, resolved_method).access = "abstract"
            THEN ResolvedErr("AbstractMethod")
            ELSE ResolvedOk(resolved_method, method_idx)

\* invokevirtual of target.name on an instance of objcls: the method invoked
invokevirtual(classes, target, name, objcls) ==
    LET resolved == resolve_class_method(classes, target, name)
    IN IF classes[target].is_interface THEN ResolvedErr("IncompatibleClassChangeError")
       ELSE IF resolved.err # "" THEN resolved
       ELSE resolve_virtual_with_index(classes, objcls, resolved.method, resolved.method_idx)

\* case_label_invokevirtual: what the handler does with the result of the
\* resolution: Ok invokes the method, every Err arm is todo!(), a panic
InvokeVirtualOutcome(resolved) ==
    IF resolved.err = ""
    THEN [kind |-> "invoke", method |-> resolved.method, error |-> ""]
    ELSE [kind |-> "panic", method |-> NullMethod, error |-> "not yet implemented"]

\* invokeinterface of iface.name on an instance of objcls: the method invoked
invokeinterface(classes, iface, name, objcls) ==
    LET resolved == resolve_interface_method(classes, objcls, iface, name)
    IN IF resolved.err # "" THEN resolved
       ELSE IF VtMethod(classes, resolved.method).access = "private"
       THEN ResolvedErr("IllegalAccessError")
       ELSE IF VtMethod(classes, resolved.method).access = "abstract"
       THEN ResolvedErr("AbstractMethodError")
       ELSE resolved

\* c and its superclasses
RECURSIVE ClassChain(_, _)
ClassChain(classes, c) ==
    IF c = 0 THEN {} ELSE { c } \cup ClassChain(classes, classes[c].super_class)

\* the public method called name of the nearest class from c upwards that
\* declares one (private methods override nothing), or NullMethod
RECURSIVE MostDerived(_, _, _)
MostDerived(classes, c, name) ==
    IF c = 0 THEN NullMethod
    ELSE LET here == { i \in 1..Len(classes[c].methods) :
                         /\ classes[c].methods[i].name = name
                         /\ classes[c].methods[i].access = "public" }
         IN IF here # {} THEN << c, CHOOSE i \in here : TRUE >>
            ELSE MostDerived(classes, classes[c].super_class, name)

\* interface i and the interfaces it extends, directly or not
RECURSIVE SuperInterfaces(_, _)
SuperInterfaces(classes, i) ==
    { i } \cup UNION { SuperInterfaces(classes, classes[i].interfaces[k]) :
                         k \in 1..Len(classes[i].interfaces) }

\* the interfaces class c declares, with their superinterfaces
InterfaceClosure(classes, c) ==
    UNION { SuperInterfaces(classes, classes[c].interfaces[k]) :
              k \in 1..Len(classes[c].interfaces) }

\* the interfaces an instance of c implements
ImplementedBy(classes, c) ==
    UNION { InterfaceClosure(classes, d) : d \in ClassChain(classes, c) }

\* a class that can have instances: it implements every method of its interfaces
Concrete(classes, c) ==
    /\ ~classes[c].is_interface
    /\ \A i \in ImplementedBy(classes, c) : \A k \in 1..Len(classes[i].methods) :
          MostDerived(classes, c, classes[i].methods[k].name) # NullMethod

VtInterfaces == { i \in 1..Len(vtClasses) : vtClasses[i].is_interface }

\* the methods declared by the class files parsed so far
RECURSIVE VtMethodsDeclared(_, _)
VtMethodsDeclared(classes, c) ==
    IF c <= 1 THEN 0 ELSE Len(classes[c].methods) + VtMethodsDeclared(classes, c - 1)

InitVt ==
    /\ vtClasses = NewClassIn(<< >>, FALSE, 0, << >>, ObjectMethods)
    /\ vtCall = << >>
    /\ NonVtIdle

\* ClassFileParser::parse_class of a class file with the given access flag,
\* superclass (loaded by now), interfaces and methods
VtParseClass(is_interface, super_class, ifaces, decl) ==
    /\ Len(vtClasses) < Len(VtClassNames)
    /\ ~vtClasses[super_class].is_interface
    /\ is_interface => super_class = 1
    /\ VtMethodsDeclared(vtClasses, Len(vtClasses)) + Len(DeclaredMethods(decl)) <= MaxVtMethods
    /\ vtClasses' = NewClassIn(vtClasses, is_interface, super_class,
                               DeclaredInterfaces(ifaces), DeclaredMethods(decl))
    /\ UNCHANGED vtCall
    /\ UNCHANGED nonVtVars

\* JClass::initialize of a class in state Created: self.link(thread)
VtLink(c) ==
    /\ ~vtClasses[c].linked
    /\ vtClasses' = link_vtab(vtClasses, c)
    /\ UNCHANGED vtCall
    /\ UNCHANGED nonVtVars

\* case_label_invokevirtual: the method reference target.name, the object on
\* the stack an instance of objcls
VtInvokeVirtual(target, name, objcls) ==
    /\ vtClasses[objcls].linked
    /\ Concrete(vtClasses, objcls)
    /\ target \in ClassChain(vtClasses, objcls)
    /\ \/ MostDerived(vtClasses, target, name) # NullMethod
       \/ \E i \in ImplementedBy(vtClasses, target) :
             resolve_local_method(vtClasses[i].methods, name, 0) >= 0
    /\ vtCall' = [op |-> "invokevirtual", ref |-> target, name |-> name, cls |-> objcls,
                  result |-> invokevirtual(vtClasses, target, name, objcls)]
    /\ UNCHANGED vtClasses
    /\ UNCHANGED nonVtVars

\* case_label_invokevirtual on an instance of a class that lacks the
\* implementation of a method of its interfaces (a class file compiled against
\* an earlier version of the interface): target.name resolves at the static
\* type, the object on the stack is an instance of objcls
VtInvokeVirtualIncomplete(target, name, objcls) ==
    /\ vtClasses[objcls].linked
    /\ ~vtClasses[objcls].is_interface
    /\ ~Concrete(vtClasses, objcls)
    /\ target \in ClassChain(vtClasses, objcls)
    /\ resolve_class_method(vtClasses, target, name).err = ""
    /\ vtCall' = [op |-> "invokevirtual_incomplete", ref |-> target, name |-> name,
                  cls |-> objcls,
                  result |-> invokevirtual(vtClasses, target, name, objcls)]
    /\ UNCHANGED vtClasses
    /\ UNCHANGED nonVtVars

\* case_label_invokeinterface: the method reference iface.name, the object on
\* the stack an instance of objcls
VtInvokeInterface(iface, name, objcls) ==
    /\ vtClasses[objcls].linked
    /\ Concrete(vtClasses, objcls)
    /\ iface \in ImplementedBy(vtClasses, objcls)
    /\ resolve_local_method(vtClasses[iface].methods, name, 0) >= 0
    /\ vtCall' = [op |-> "invokeinterface", ref |-> iface, name |-> name, cls |-> objcls,
                  result |-> invokeinterface(vtClasses, iface, name, objcls)]
    /\ UNCHANGED vtClasses
    /\ UNCHANGED nonVtVars

NextVt ==
    \/ \E is_interface \in BOOLEAN : \E super_class \in 1..Len(vtClasses) :
          \E ifaces \in SUBSET VtInterfaces :
             \E decl \in [VtNames -> IF is_interface THEN { "none", "abstract" }
                                     ELSE { "none", "public", "private" }] :
                VtParseClass(is_interface, super_class, ifaces, decl)
    \/ \E c \in 1..Len(vtClasses) : VtLink(c)
    \/ \E target \in 1..Len(vtClasses) : \E name \in VtNames :
          \E objcls \in 1..Len(vtClasses) : VtInvokeVirtual(target, name, objcls)
    \/ \E target \in 1..Len(vtClasses) : \E name \in VtNames :
          \E objcls \in 1..Len(vtClasses) : VtInvokeVirtualIncomplete(target, name, objcls)
    \/ \E iface \in VtInterfaces : \E name \in VtNames :
          \E objcls \in 1..Len(vtClasses) : VtInvokeInterface(iface, name, objcls)

SpecVt == InitVt /\ [][NextVt]_vars

\* C8: for every class C that can have instances and every virtual method m
\* declared by C or a superclass of C, the vtable of C holds at the index of m
\* the most-derived override of m on C, and invokevirtual of m on an instance
\* of C runs it (name() through a Base reference to a Sub runs Sub.name()).
C8_VtableMostDerived ==
    /\ \A c \in 1..Len(vtClasses) :
          Concrete(vtClasses, c) =>
             \A d \in ClassChain(vtClasses, c) : \A i \in 1..Len(vtClasses[d].methods) :
                vtClasses[d].methods[i].access = "public" =>
                   LET name == vtClasses[d].methods[i].name
                       at == resolve_class_method(vtClasses, d, name)
                   IN /\ at.err = ""
                      /\ at.method_idx < vtClasses[c].vtab_len
                      /\ vtClasses[c].vtab_methods[at.method_idx + 1]
                            = MostDerived(vtClasses, c, name)
    /\ (vtCall # << >> /\ vtCall.op = "invokevirtual") =>
          /\ vtCall.result.err = ""
          /\ vtCall.result.method = MostDerived(vtClasses, vtCall.cls, vtCall.name)

\* a linked Sub overrides a method of its superclass Base, and the method was
\* invoked on a Sub through a reference to Base
C8_Witness ==
    /\ vtCall # << >>
    /\ vtCall.op = "invokevirtual"
    /\ vtCall.ref # vtCall.cls
    /\ vtClasses[vtCall.cls].linked
    /\ MostDerived(vtClasses, vtCall.ref, vtCall.name) # NullMethod
    /\ MostDerived(vtClasses, vtCall.ref, vtCall.name)
          # MostDerived(vtClasses, vtCall.cls, vtCall.name)
    /\ vtCall.result.method = MostDerived(vtClasses, vtCall.cls, vtCall.name)

\* C9: invokeinterface of a method of interface I on an instance of a class C
\* that implements I (directly, through a superclass, or next to other
\* interfaces) runs the method invokevirtual reaches through the vtable of C
\* for that name and descriptor.
C9_InterfaceDispatch ==
    (vtCall # << >> /\ vtCall.op = "invokeinterface") =>
       /\ vtCall.result.err = ""
       /\ invokevirtual(vtClasses, vtCall.cls, vtCall.name, vtCall.cls).err = ""
       /\ vtCall.result.method
             = invokevirtual(vtClasses, vtCall.cls, vtCall.name, vtCall.cls).method

\* C10: the interface pointers of the VTable block of a linked class hold every
\* interface the class declares and every superinterface reachable from them.
C10_InterfaceClosure ==
    \A c \in 1..Len(vtClasses) :
       (vtClasses[c].linked /\ ~vtClasses[c].is_interface) =>
          InterfaceClosure(vtClasses, c)
             \subseteq { vtClasses[c].vtab_ifaces[k] : k \in 1..vtClasses[c].ifaces_len }

-----------------------------------------------------------------------------
(***************************************************************************)
(* Class initialization: what the state Initialized stands for.            *)
(***************************************************************************)

\* some thread is executing <clinit> of c
ClinitRunning(c) == \E t \in Threads : InClinitOf(t, c)

\* C11: a class whose state is Initialized has a superclass (if any) that is
\* Linked or later, its own <clinit> (if any) has run to completion, and no
\* <clinit> of the class is still executing while the state reads Initialized.
C11_InitializedMeansDone ==
    \A c \in InitClasses :
        initState[c] = "Initialized" =>
            /\ SuperOf(c) # NoClass => IsLinked(initState[SuperOf(c)])
            /\ HasClinit(c) => clinitDone[c]
            /\ ~ClinitRunning(c)

-----------------------------------------------------------------------------
(***************************************************************************)
(* Symbols and their UTF-16 form.                                          *)
(***************************************************************************)

\* HeapString::to_utf16: self.as_str().encode_utf16().collect()
to_utf16(sym) == EncodeUtf16(Utf8Chars(sym.bytes))

\* C12: for every symbol, hash_utf16 of the symbol's to_utf16() equals the hash
\* the symbol stores (computed over its code points), also for content with
\* code points above U+FFFF.
C12_SymbolHashUtf16 ==
    \A s \in DOMAIN symHeap : hash_utf16(to_utf16(symHeap[s])) = symHeap[s].hash

-----------------------------------------------------------------------------
(***************************************************************************)
(* Strings made from symbols.                                              *)
(***************************************************************************)

\* C13: once from_symbol(s) has returned a string for symbol s, every later
\* from_symbol(s) finds that string under the symbol's hash and returns the
\* same object; from_symbol creates no second string for s.
C13_FromSymbolFindsString ==
    \A e1, e2 \in fromSymLog : e1.key = e2.key => e1.str = e2.str

-----------------------------------------------------------------------------
(***************************************************************************)
(* invokevirtual on a vtable slot that cannot be invoked.                  *)
(***************************************************************************)

\* the last bytecode executed was an invokevirtual
VtWasInvokeVirtual ==
    /\ vtCall # << >>
    /\ vtCall.op \in { "invokevirtual", "invokevirtual_incomplete" }
    /\ resolve_class_method(vtClasses, vtCall.ref, vtCall.name).err = ""
    /\ resolve_class_method(vtClasses, vtCall.ref, vtCall.name).method_idx
          < vtClasses[vtCall.cls].vtab_len

\* the method in the vtable of the receiver's class at the statically resolved index
VtSlotMethod ==
    vtClasses[vtCall.cls].vtab_methods[
        resolve_class_method(vtClasses, vtCall.ref, vtCall.name).method_idx + 1]

\* C14: invokevirtual fails with AbstractMethodError whenever the method in the
\* vtable of the receiver's class at the statically resolved index is abstract
\* or has another name and descriptor than the statically resolved method;
\* otherwise it invokes the method in that slot.
C14_InvokeVirtualAbstract ==
    VtWasInvokeVirtual =>
        LET slot == VtMethod(vtClasses, VtSlotMethod)
            outcome == InvokeVirtualOutcome(vtCall.result)
        IN IF slot.access = "abstract" \/ slot.name # vtCall.name
           THEN outcome.kind = "throw" /\ outcome.error = "AbstractMethodError"
           ELSE outcome.kind = "invoke" /\ outcome.method = VtSlotMethod

-----------------------------------------------------------------------------
(***************************************************************************)
(* The bytecode interpreter (runtime/interpreter.rs).  The code array of   *)
(* the current method is a sequence of bytes, the byte at address a being  *)
(* method_code[a + 1].  Between two handlers interp_pc is the address      *)
(* after the opcode whose handler runs next: every handler ends in         *)
(* dispatch! or goto, which fetch the next opcode and step over it.  The   *)
(* operand stack is a sequence of slots, top first.  A behaviour starts    *)
(* in the middle of a method, where one instruction is about to be         *)
(* handled with its operands on the stack.                                 *)
(***************************************************************************)

\* enum JvmInstruction: the opcodes handled here
JvmInstruction ==
    [Nop |-> 0, IfEq |-> 153, IfNe |-> 154, IfLt |-> 155, IfGe |-> 156, IfGt |-> 157,
     IfLe |-> 158, IfICmpEq |-> 159, IfICmpNe |-> 160, IfICmpLt |-> 161, IfICmpGe |-> 162,
     IfICmpGt |-> 163, IfICmpLe |-> 164, IfACmpEq |-> 165, IfACmpNe |-> 166, Goto |-> 167,
     Jsr |-> 168, TableSwitch |-> 170, LookupSwitch |-> 171, Return |-> 177,
     MultiANewArray |-> 197, IfNull |-> 198, IfNonNull |-> 199, GotoW |-> 200, JsrW |-> 201,
     AALoad |-> 50, AAStore |-> 83, IDiv |-> 108, LDiv |-> 109, FDiv |-> 110, DDiv |-> 111, IRem |-> 112,
     LRem |-> 113, FRem |-> 114, DRem |-> 115, IShL |-> 120, LShL |-> 121, IShR |-> 122,
     LShR |-> 123, IUShR |-> 124, LUShR |-> 125, IReturn |-> 172, AReturn |-> 176,
     InvokeStatic |-> 184, InvokeVirtual |-> 182, BiPush |-> 16, SIPush |-> 17]

\* case_label_num_if_cmp!, first form: val2 and val1 are popped
IfCmpOps == { 159, 160, 161, 162, 163, 164, 165, 166 }

\* case_label_num_if_cmp!, second form: val2 is popped, val1 is 0 or null
IfZeroOps == { 153, 154, 155, 156, 157, 158, 198, 199 }

\* the $arith_op each handler is instantiated with
ArithOp(op_code) ==
    CASE op_code \in { 153, 159, 165, 198 } -> "=="
      [] op_code \in { 154, 160, 166, 199 } -> "!="
      [] op_code \in { 155, 161 } -> "<"
      [] op_code \in { 156, 162 } -> ">="
      [] op_code \in { 157, 163 } -> ">"
      [] op_code \in { 158, 164 } -> "<="

\* lhs $arith_op rhs
ArithHolds(arith_op, lhs, rhs) ==
    CASE arith_op = "==" -> lhs = rhs
      [] arith_op = "!=" -> lhs # rhs
      [] arith_op = "<" -> lhs < rhs
      [] arith_op = ">=" -> lhs >= rhs
      [] arith_op = ">" -> lhs > rhs
      [] arith_op = "<=" -> lhs <= rhs

\* a byte as the most significant byte of a signed number
ToI8(b) == IF b >= 128 THEN b - 256 ELSE b

\* Interpreter::read_operand: the byte at pc (pc moves on by 1)
read_operand(code, pc) == code[pc + 1]

\* Interpreter::read_operand_i16: (i16::from(byte1) << 8) | i16::from(byte2)
read_operand_i16(code, pc) ==
    ToI16(read_operand(code, pc) * 256) + read_operand(code, pc + 1)

\* Interpreter::read_operand_i32 / peek_operand_as_int: four bytes, the first
\* shifted into the sign
read_operand_i32(code, pc) ==
    (ToI8(read_operand(code, pc)) * 16777216) + (read_operand(code, pc + 1) * 65536)
        + (read_operand(code, pc + 2) * 256) + read_operand(code, pc + 3)

\* dispatch!: the opcode at pc is fetched and pc steps over it
dispatch(pc) == pc + 1

\* a goto relative to the byte after the opcode
goto_after_opcode(base_op_addr, branch) == ((base_op_addr + 1) + branch) + 1

\* Interpreter::goto / goto_w: target_addr = base_op_addr + branch, the opcode
\* there is fetched and pc is the address after it
goto(base_op_addr, branch) == (base_op_addr + branch) + 1

\* the opcode whose handler runs next, or -1 when the interpreter has returned
\* or pc is outside the code array
CurrentOp ==
    IF interp_pc >= 1 /\ interp_pc <= Len(method_code) THEN method_code[interp_pc] ELSE 0 - 1

\* what a handler leaves in the history: the instruction, whether it branched,
\* the depth of the operand stack before it and the key it popped (switches)
Handled(op_addr, taken, key) ==
    [op_addr |-> op_addr, op_code |-> method_code[op_addr + 1], taken |-> taken,
     depth |-> Len(interp_stack), key |-> key]

\* case_label_num_if_cmp!, first form (if_icmp<cond>, if_acmp<cond>)
ExecIfCmp ==
    /\ CurrentOp \in IfCmpOps
    /\ Len(interp_stack) >= 2
    /\ LET if_op_addr == interp_pc - 1
           branch == read_operand_i16(method_code, interp_pc)
           val2 == interp_stack[1]
           val1 == interp_stack[2]
           taken == ArithHolds(ArithOp(CurrentOp), val1, val2)
       IN /\ interp_stack' = SubSeq(interp_stack, 3, Len(interp_stack))
          /\ interp_pc' = IF taken THEN goto(if_op_addr, branch) ELSE dispatch(interp_pc + 2)
          /\ interp_last' = Handled(if_op_addr, taken, 0)
    /\ UNCHANGED <<method_code, interp_heap>>
    /\ UNCHANGED nonInterpVars

\* case_label_num_if_cmp!, second form (if<cond>, ifnull, ifnonnull)
ExecIfZero ==
    /\ CurrentOp \in IfZeroOps
    /\ Len(interp_stack) >= 1
    /\ LET if_op_addr == interp_pc - 1
           branch == read_operand_i16(method_code, interp_pc)
           val2 == interp_stack[1]
           val1 == 0
           taken == ArithHolds(ArithOp(CurrentOp), val2, val1)
       IN /\ interp_stack' = Tail(interp_stack)
          /\ interp_pc' = IF taken THEN goto(if_op_addr, branch) ELSE dispatch(interp_pc + 2)
          /\ interp_last' = Handled(if_op_addr, taken, 0)
    /\ UNCHANGED <<method_code, interp_heap>>
    /\ UNCHANGED nonInterpVars

\* case_label_goto
ExecGoto ==
    /\ CurrentOp = JvmInstruction.Goto
    /\ LET goto_op_addr == interp_pc - 1
           branch == read_operand_i16(method_code, interp_pc)
       IN /\ interp_pc' = goto(goto_op_addr, branch)
          /\ interp_last' = Handled(goto_op_addr, TRUE, 0)
    /\ UNCHANGED <<method_code, interp_stack, interp_heap>>
    /\ UNCHANGED nonInterpVars

\* case_label_gotow
ExecGotoW ==
    /\ CurrentOp = JvmInstruction.GotoW
    /\ LET gotow_op_addr == interp_pc - 1
           branch == read_operand_i32(method_code, interp_pc)
       IN /\ interp_pc' = goto(gotow_op_addr, branch)
          /\ interp_last' = Handled(gotow_op_addr, TRUE, 0)
    /\ UNCHANGED <<method_code, interp_stack, interp_heap>>
    /\ UNCHANGED nonInterpVars

\* case_label_jsr: the address after the operands is pushed
ExecJsr ==
    /\ CurrentOp = JvmInstruction.Jsr
    /\ LET jsr_op_addr == interp_pc - 1
           branch == read_operand_i16(method_code, interp_pc)
       IN /\ interp_stack' = << interp_pc + 2 >> \o interp_stack
          /\ interp_pc' = goto(jsr_op_addr, branch)
          /\ interp_last' = Handled(jsr_op_addr, TRUE, 0)
    /\ UNCHANGED <<method_code, interp_heap>>
    /\ UNCHANGED nonInterpVars

\* case_label_jsrw
ExecJsrW ==
    /\ CurrentOp = JvmInstruction.JsrW
    /\ LET jsrw_op_addr == interp_pc - 1
           branch == read_operand_i32(method_code, interp_pc)
       IN /\ interp_stack' = << interp_pc + 4 >> \o interp_stack
          /\ interp_pc' = goto(jsrw_op_addr, branch)
          /\ interp_last' = Handled(jsrw_op_addr, TRUE, 0)
    /\ UNCHANGED <<method_code, interp_heap>>
    /\ UNCHANGED nonInterpVars

\* case_label_return in the top Java frame: the interpreter returns
ExecReturn ==
    /\ CurrentOp = JvmInstruction.Return
    /\ interp_pc' = 0
    /\ UNCHANGED <<method_code, interp_stack, interp_heap, interp_last>>
    /\ UNCHANGED nonInterpVars

\* the n bytes from address addr on lie inside the code array
Readable(code, addr, n) == addr >= 0 /\ addr + n <= Len(code)

\* Interpreter::skip_operands
skip_operands(pc, n) == pc + n

\* case_label_tableswitch up to the assignment of pc: the new pc, or undefined
\* when an operand is read outside the code array, and the address the
\* default operand is read at
tableswitch(code, pc, index) ==
    LET op_addr == pc - 1
        operands == skip_operands(pc, 3)
        table == operands + 12
    IN IF ~Readable(code, operands, 12) THEN [defined |-> FALSE, pc |-> 0, operands |-> operands]
       ELSE LET default_offset == read_operand_i32(code, operands)
                low == read_operand_i32(code, operands + 4)
                high == read_operand_i32(code, operands + 8)
            IN IF index < low \/ index > high
               THEN [defined |-> TRUE, pc |-> op_addr + (default_offset * 4),
                     operands |-> operands]
               ELSE IF ~Readable(code, table + ((index - low) * 4), 4)
               THEN [defined |-> FALSE, pc |-> 0, operands |-> operands]
               ELSE [defined |-> TRUE,
                     pc |-> op_addr + read_operand_i32(code, table + ((index - low) * 4)),
                     operands |-> operands]

RECURSIVE LookupLoop(_, _, _, _, _)
\* case_label_lookupswitch: the binary search over the pairs at address pairs
LookupLoop(code, pairs, key, left, right) ==
    IF left > right THEN [defined |-> TRUE, found |-> FALSE, offset |-> 0]
    ELSE LET mid == (left + right) \div 2
         IN IF ~Readable(code, pairs + (mid * 8), 8)
            THEN [defined |-> FALSE, found |-> FALSE, offset |-> 0]
            ELSE LET mid_val == read_operand_i32(code, pairs + (mid * 8))
                 IN IF mid_val < key THEN LookupLoop(code, pairs, key, mid + 1, right)
                    ELSE IF mid_val > key THEN LookupLoop(code, pairs, key, left, mid - 1)
                    ELSE [defined |-> TRUE, found |-> TRUE,
                          offset |-> read_operand_i32(code, pairs + (mid * 8) + 4)]

\* case_label_lookupswitch up to the assignment of pc
lookupswitch(code, pc, key) ==
    LET op_addr == pc - 1
        operands == skip_operands(pc, 3)
    IN IF ~Readable(code, operands, 8) THEN [defined |-> FALSE, pc |-> 0, operands |-> operands]
       ELSE LET default_offset == read_operand_i32(code, operands)
                npairs == read_operand_i32(code, operands + 4)
                hit == LookupLoop(code, operands + 8, key, 0, npairs - 1)
            IN IF ~hit.defined THEN [defined |-> FALSE, pc |-> 0, operands |-> operands]
               ELSE [defined |-> TRUE,
                     pc |-> op_addr + (IF hit.found THEN hit.offset ELSE default_offset),
                     operands |-> operands]

\* what a switch handler leaves in the history: the instruction, the key and
\* the address its operands were read from
HandledSwitch(op_addr, key, operands) ==
    [op_addr |-> op_addr, op_code |-> method_code[op_addr + 1], taken |-> TRUE,
     depth |-> Len(interp_stack), key |-> key, operands |-> operands]

\* the end of both switch handlers: dispatch! at the new pc.  An operand read
\* outside the code array yields any value, so that pc may become any address.
SwitchTo(target) ==
    IF target.defined
    THEN interp_pc' = dispatch(target.pc)
    ELSE interp_pc' \in 0..(Len(method_code) + 1)

\* case_label_tableswitch
ExecTableswitch ==
    /\ CurrentOp = JvmInstruction.TableSwitch
    /\ Len(interp_stack) >= 1
    /\ SwitchTo(tableswitch(method_code, interp_pc, interp_stack[1]))
    /\ interp_stack' = Tail(interp_stack)
    /\ interp_last' = HandledSwitch(interp_pc - 1, interp_stack[1],
                            tableswitch(method_code, interp_pc, interp_stack[1]).operands)
    /\ UNCHANGED <<method_code, interp_heap>>
    /\ UNCHANGED nonInterpVars

\* case_label_lookupswitch
ExecLookupswitch ==
    /\ CurrentOp = JvmInstruction.LookupSwitch
    /\ Len(interp_stack) >= 1
    /\ SwitchTo(lookupswitch(method_code, interp_pc, interp_stack[1]))
    /\ interp_stack' = Tail(interp_stack)
    /\ interp_last' = HandledSwitch(interp_pc - 1, interp_stack[1],
                            lookupswitch(method_code, interp_pc, interp_stack[1]).operands)
    /\ UNCHANGED <<method_code, interp_heap>>
    /\ UNCHANGED nonInterpVars

\* case_label_bipush: JInt::from(interp.read_operand()), the u8 operand widened
\* to an int
ExecBipush ==
    /\ CurrentOp = JvmInstruction.BiPush
    /\ Readable(method_code, interp_pc, 1)
    /\ interp_stack' = << read_operand(method_code, interp_pc) >> \o interp_stack
    /\ interp_pc' = dispatch(interp_pc + 1)
    /\ interp_last' = Handled(interp_pc - 1, FALSE, 0)
    /\ UNCHANGED <<method_code, interp_heap>>
    /\ UNCHANGED nonInterpVars

\* case_label_sipush: JInt::from(interp.read_operand_i16())
ExecSipush ==
    /\ CurrentOp = JvmInstruction.SIPush
    /\ Readable(method_code, interp_pc, 2)
    /\ interp_stack' = << read_operand_i16(method_code, interp_pc) >> \o interp_stack
    /\ interp_pc' = dispatch(interp_pc + 2)
    /\ interp_last' = Handled(interp_pc - 1, FALSE, 0)
    /\ UNCHANGED <<method_code, interp_heap>>
    /\ UNCHANGED nonInterpVars

\* JArray::new: an array of the given length, its elements null
NewArray(length) == [length |-> length, elems |-> [i \in 1..length |-> 0]]

RECURSIVE create_dimension_array(_, _, _, _, _)
RECURSIVE CreateElements(_, _, _, _, _, _)
\* Interpreter::create_dimension_array: the heap afterwards
create_dimension_array(heap, stack, dimension_idx, dimensions_end_idx, parent_dimension) ==
    CreateElements(heap, stack, dimension_idx, dimensions_end_idx, parent_dimension, 0)

\* create_dimension_array: the loops over parent_idx
CreateElements(heap, stack, dimension_idx, dimensions_end_idx, parent_dimension, parent_idx) ==
    IF parent_idx >= heap[parent_dimension].length THEN heap
    ELSE LET dimension_length == stack[(dimensions_end_idx - dimension_idx) + 1]
             current_dimension_arr == Len(heap) + 1
             created == Append(heap, NewArray(dimension_length))
             stored == [created EXCEPT
                          ![parent_dimension].elems[parent_idx + 1] = current_dimension_arr]
             filled == IF dimension_idx < dimensions_end_idx
                       THEN create_dimension_array(stored, stack, dimension_idx + 1,
                                                   dimensions_end_idx, current_dimension_arr)
                       ELSE stored
         IN CreateElements(filled, stack, dimension_idx, dimensions_end_idx,
                           parent_dimension, parent_idx + 1)

\* case_label_multianewarray (the array class of the constant pool entry loads)
ExecMultianewarray ==
    /\ CurrentOp = JvmInstruction.MultiANewArray
    /\ LET dimensions == read_operand(method_code, interp_pc + 2)
           dimensions_end_idx == dimensions - 1
       IN /\ dimensions >= 1
          /\ Len(interp_stack) >= dimensions
          /\ LET dimension_length == interp_stack[dimensions_end_idx + 1]
                 dimensions_array == Len(interp_heap) + 1
                 created == Append(interp_heap, NewArray(dimension_length))
             IN /\ interp_heap' =
                      IF dimensions > 1
                      THEN create_dimension_array(created, interp_stack, 1,
                                                  dimensions_end_idx, dimensions_array)
                      ELSE created
                /\ interp_stack' = << dimensions_array >> \o interp_stack
    /\ interp_pc' = dispatch(interp_pc + 3)
    /\ interp_last' = Handled(interp_pc - 1, FALSE, 0)
    /\ UNCHANGED method_code
    /\ UNCHANGED nonInterpVars

\* ---- the methods and the states the interpreter is started in

MaxCodeLen == 140
MaxCases == 2
MaxDims == 3

\* the branch instructions
BranchOps == IfCmpOps \cup IfZeroOps \cup { 167, 168, 200, 201 }

WideBranchOps == { 200, 201 }

\* where the branch instruction stands, and its branch offsets
BranchAts == { 0, 4, 134 }

BranchOffsets == { 0 - 130, 0 - 4, 0 - 3, 5, 6, 130 }

\* the values of int and reference operands (0 is also null)
OperandValues == { 0 - 1, 0, 1 }

\* a class file's u2 / s2: two bytes, big-endian, two's complement
I16Bytes(v) ==
    LET u == IF v < 0 THEN v + 65536 ELSE v
    IN << u \div 256, u % 256 >>

\* a class file's s4
I32Bytes(v) ==
    LET u == IF v < 0 THEN (v + 2147483647) + 1 ELSE v
    IN << (IF v < 0 THEN 128 ELSE 0) + (u \div 16777216),
          (u \div 65536) % 256, (u \div 256) % 256, u % 256 >>

\* a code array of the given length with the instruction at address at and a
\* return at each of the given addresses (the other bytes are not executed)
Assemble(length, at, instruction, returns) ==
    [ i \in 1..length |->
        IF (i - 1) >= at /\ (i - 1) < at + Len(instruction) THEN instruction[i - at]
        ELSE IF (i - 1) \in returns THEN JvmInstruction.Return
        ELSE JvmInstruction.Nop ]

Started(code, at, stack) == [code |-> code, at |-> at, stack |-> stack]

\* a branch instruction with a return at its target and behind it
BranchStarts ==
    { Started(Assemble(MaxCodeLen, at, << op >> \o operand, { at + off, at + Len(operand) + 1 }),
              at, stack) :
        << op, at, off, operand, stack >> \in
          { << op, at, off,
               IF op \in WideBranchOps THEN I32Bytes(off) ELSE I16Bytes(off), stack >> :
              << op, at, off, stack >> \in
                 { x \in BranchOps \X BranchAts \X BranchOffsets
                            \X ({ << >> } \cup { << v >> : v \in OperandValues }
                                \cup { << v, w >> : v \in OperandValues, w \in OperandValues }) :
                     /\ x[2] + x[3] >= 0
                     /\ x[2] + x[3] < MaxCodeLen
                     /\ Len(x[4]) = (IF x[1] \in IfCmpOps THEN 2
                                     ELSE IF x[1] \in IfZeroOps THEN 1 ELSE 0) } } }

RECURSIVE Ascending(_)
\* the numbers of a set in ascending order
Ascending(S) ==
    IF S = {} THEN << >>
    ELSE LET least == CHOOSE x \in S : \A y \in S : x <= y
         IN << least >> \o Ascending(S \ { least })

RECURSIVE Flatten(_)
Flatten(seqs) == IF seqs = << >> THEN << >> ELSE Head(seqs) \o Flatten(Tail(seqs))

\* the 0 to 3 bytes after a switch opcode at address at, so that the operands
\* start at a multiple of four
SwitchPadding(at) == [ i \in 1..(3 - (at % 4)) |-> 0 ]

\* where the switch instructions stand: every alignment
SwitchAts == { 4, 5, 6, 7 }

TableLows == { 0 - 1, 0, 3 }

LookupMatches == { 0 - 1, 0, 3 }

LookupKeys == { 0 - 2, 0 - 1, 0, 1, 3, 4 }

\* a switch instruction at address at: head are its operands before the jump
\* table (whose entries take width bytes without the offset), matches the
\* prefix of each entry; case i goes to the i-th byte behind the instruction,
\* default behind these or back to address 0
SwitchStart(op, at, head, width, matches, default_back, key) ==
    LET n == Len(matches)
        end == at + 1 + Len(SwitchPadding(at)) + 4 + Len(head) + (n * width)
        default_offset == IF default_back THEN 0 - at ELSE (end + n) - at
        instruction ==
            << op >> \o SwitchPadding(at) \o I32Bytes(default_offset) \o head
                \o Flatten([ i \in 1..n |-> matches[i] \o I32Bytes((end + i - 1) - at) ])
    IN Started(Assemble(end + n + 4, at, instruction, { 0 } \cup (end..(end + n))),
               at, << key >>)

TableSwitchStarts ==
    { SwitchStart(JvmInstruction.TableSwitch, at, I32Bytes(low) \o I32Bytes(low + n - 1), 4,
                  [ i \in 1..n |-> << >> ], default_back, key) :
        << at, low, n, default_back, key >> \in
           { x \in SwitchAts \X TableLows \X (1..MaxCases) \X BOOLEAN
                     \X ((0 - 2)..(3 + MaxCases)) :
               x[5] >= x[2] - 1 /\ x[5] <= x[2] + x[3] } }

LookupSwitchStarts ==
    { SwitchStart(JvmInstruction.LookupSwitch, at, I32Bytes(Cardinality(matches)), 8,
                  [ i \in 1..Cardinality(matches) |-> I32Bytes(Ascending(matches)[i]) ],
                  default_back, key) :
        << at, matches, default_back, key >> \in
           { x \in SwitchAts \X (SUBSET LookupMatches) \X BOOLEAN \X LookupKeys :
               Cardinality(x[2]) <= MaxCases } }

ArrayLengths == { 0, 1, 2 }

\* multianewarray of 1 to MaxDims dimensions with the lengths on the stack
\* (the first dimension deepest), on an empty stack or above another slot
ArrayStarts ==
    { Started(Assemble(5, 0, << JvmInstruction.MultiANewArray, 0, 1, Len(lengths) >>, { 4 }),
              0, lengths \o below) :
        << lengths, below >> \in
           (UNION { [1..d -> ArrayLengths] : d \in 1..MaxDims }) \X { << >>, << 7 >> } }

\* the bytes of the immediate of bipush and sipush: both signs and the limits
ImmediateBytes == { 0, 1, 127, 128, 200, 255 }

\* a bipush or a sipush with a return behind it
PushStarts ==
    { Started(Assemble(MaxCodeLen, at, << JvmInstruction.BiPush, b >>, { at + 2 }), at, << >>) :
        << at, b >> \in { 0, 1 } \X ImmediateBytes }
    \cup
    { Started(Assemble(MaxCodeLen, at, << JvmInstruction.SIPush, b, c >>, { at + 3 }), at, << >>) :
        << at, b, c >> \in { 0, 1 } \X ImmediateBytes \X ImmediateBytes }

InterpStarts ==
    BranchStarts \cup TableSwitchStarts \cup LookupSwitchStarts \cup ArrayStarts
        \cup PushStarts

InitInterp ==
    /\ \E s \in InterpStarts :
          /\ method_code = s.code
          /\ interp_pc = dispatch(s.at)
          /\ interp_stack = s.stack
    /\ interp_heap = << >>
    /\ interp_last = << >>
    /\ NonInterpIdle

NextInterp ==
    \/ ExecIfCmp
    \/ ExecIfZero
    \/ ExecGoto
    \/ ExecGotoW
    \/ ExecJsr
    \/ ExecJsrW
    \/ ExecReturn
    \/ ExecTableswitch
    \/ ExecLookupswitch
    \/ ExecMultianewarray
    \/ ExecBipush
    \/ ExecSipush

SpecInterp == InitInterp /\ [][NextInterp]_vars

RECURSIVE UnsignedBE(_)
\* the number a sequence of bytes stands for, most significant byte first
UnsignedBE(bytes) ==
    IF bytes = << >> THEN 0
    ELSE (UnsignedBE(SubSeq(bytes, 1, Len(bytes) - 1)) * 256) + bytes[Len(bytes)]

\* the same bytes as a two's complement number
SignedBE(bytes) ==
    ((IF bytes[1] >= 128 THEN bytes[1] - 256 ELSE bytes[1])
        * (IF Len(bytes) = 2 THEN 256 ELSE 16777216)) + UnsignedBE(Tail(bytes))

\* the n bytes of the code array from address addr on
CodeBytes(addr, n) == SubSeq(method_code, addr + 1, addr + n)

\* the signed branch offset the branch instruction at op_addr carries
BranchOffsetAt(op_addr) ==
    IF method_code[op_addr + 1] \in WideBranchOps
    THEN SignedBE(CodeBytes(op_addr + 1, 4))
    ELSE SignedBE(CodeBytes(op_addr + 1, 2))

\* the handler of the instruction interp_last has just ended: the opcode to
\* be executed next stands at interp_pc - 1
JustHandled(ops) ==
    /\ interp_last # << >>
    /\ interp_pc # 0
    /\ interp_last.op_code \in ops

\* C15: a branch instruction of the if<cond> / if_icmp<cond> / if_acmp<cond> /
\* ifnull / ifnonnull / goto / goto_w / jsr family that branches continues at
\* (address of its opcode byte) + (its signed branch offset).
C15_BranchTarget ==
    (JustHandled(BranchOps) /\ interp_last.taken) =>
        interp_pc - 1 = interp_last.op_addr + BranchOffsetAt(interp_last.op_addr)

\* a conditional branch was taken backwards over more than 127 bytes
C15_Witness ==
    /\ JustHandled(IfCmpOps \cup IfZeroOps)
    /\ interp_last.taken
    /\ interp_pc - 1 = interp_last.op_addr - 130

\* ---- the switch instructions as the class file format defines them

\* the address of the operands of the switch instruction at op_addr: behind
\* the opcode and its 0 to 3 bytes of padding
SwitchOperandsAt(op_addr) == (op_addr + 1) + Len(SwitchPadding(op_addr))

\* the signed 32-bit number at address addr
S4At(addr) == SignedBE(CodeBytes(addr, 4))

\* the offset tableswitch at op_addr selects for key: the entry key - low of
\* the jump table, or default when key is outside [low, high]
TableSwitchOffset(op_addr, key) ==
    LET operands == SwitchOperandsAt(op_addr)
        low == S4At(operands + 4)
        high == S4At(operands + 8)
    IN IF key < low \/ key > high THEN S4At(operands)
       ELSE S4At((operands + 12) + ((key - low) * 4))

\* the offset lookupswitch at op_addr selects for key: the offset of the pair
\* that matches key, or default when no pair does
LookupSwitchOffset(op_addr, key) ==
    LET operands == SwitchOperandsAt(op_addr)
        npairs == S4At(operands + 4)
        hits == { i \in 0..(npairs - 1) : S4At((operands + 8) + (i * 8)) = key }
    IN IF hits = {} THEN S4At(operands)
       ELSE S4At((operands + 12) + ((CHOOSE i \in hits : TRUE) * 8))

\* C16: tableswitch and lookupswitch continue at (address of the switch opcode
\* byte) + offset, the signed 32-bit offset of the case that matches the key,
\* or the default offset when the key matches no case.
C16_SwitchTarget ==
    /\ JustHandled({ JvmInstruction.TableSwitch }) =>
          interp_pc - 1
             = interp_last.op_addr + TableSwitchOffset(interp_last.op_addr, interp_last.key)
    /\ JustHandled({ JvmInstruction.LookupSwitch }) =>
          interp_pc - 1
             = interp_last.op_addr + LookupSwitchOffset(interp_last.op_addr, interp_last.key)

\* C17: multianewarray with the operand dimensions = d removes d lengths from
\* the operand stack and pushes one array reference: the depth afterwards is
\* the depth before minus d plus 1.
C17_MultianewarrayStack ==
    (interp_last # << >> /\ interp_last.op_code = JvmInstruction.MultiANewArray) =>
        Len(interp_stack) = (interp_last.depth - method_code[interp_last.op_addr + 4]) + 1

-----------------------------------------------------------------------------
(***************************************************************************)
(* The descriptor parser (classfile/descriptor.rs).  A descriptor is a     *)
(* sequence of characters; offsets count from 0 as in the source, so the   *)
(* byte at offset o is value[o + 1].                                       *)
(***************************************************************************)

\* bounds of the descriptors the parser is started on
MaxArrayDims == 2
MaxParams == 2

\* enum Descriptor
ResolvedClass(cls, size) == [kind |-> "ResolvedClass", cls |-> cls, size |-> size]

Symbol(symbol, size) == [kind |-> "Symbol", symbol |-> symbol, size |-> size]

OpenParenthesis == [kind |-> "OpenParenthesis"]

CloseParenthesis == [kind |-> "CloseParenthesis"]

InvalidDescriptor == [kind |-> "InvalidDescriptor"]

End == [kind |-> "End"]

\* The preloaded class and the size_of::<J...>() of each primitive letter.
PrimitiveClasses ==
    [p \in {"B", "C", "D", "F", "I", "J", "S", "Z"} |->
        CASE p = "B" -> [cls |-> "byte_cls", arr_cls |-> "byte_arr_cls", size |-> 1]
          [] p = "C" -> [cls |-> "char_cls", arr_cls |-> "char_arr_cls", size |-> 2]
          [] p = "D" -> [cls |-> "double_cls", arr_cls |-> "double_arr_cls", size |-> 8]
          [] p = "F" -> [cls |-> "float_cls", arr_cls |-> "float_arr_cls", size |-> 4]
          [] p = "I" -> [cls |-> "int_cls", arr_cls |-> "int_arr_cls", size |-> 4]
          [] p = "J" -> [cls |-> "long_cls", arr_cls |-> "long_arr_cls", size |-> 8]
          [] p = "S" -> [cls |-> "short_cls", arr_cls |-> "short_arr_cls", size |-> 2]
          [] p = "Z" -> [cls |-> "bool_cls", arr_cls |-> "bool_arr_cls", size |-> 1]]

\* &self.value[start..=end], interned
class_symbol(value, start, end) == SubSeq(value, start + 1, end + 1)

\* The result of a call: the Descriptor, and the parser's offset and cur_arr
\* after it.  A token of kind "Undefined" stands for the match on a byte that
\* peek() read past the end of the value.
Parsed(token, offset, cur_arr) ==
    [token |-> token, offset |-> offset, cur_arr |-> cur_arr]

\* the loop of the b'L' arm, entered with self.offset = offset
RECURSIVE ScanClassName(_, _, _, _)
ScanClassName(value, offset, cur_arr, symbol_start) ==
    IF offset = Len(value)
    THEN Parsed(InvalidDescriptor, offset, cur_arr)
    ELSE IF value[offset + 1] # ";"
    THEN ScanClassName(value, offset + 1, cur_arr, symbol_start)
    ELSE Parsed(Symbol(IF cur_arr
                       THEN class_symbol(value, symbol_start, offset)
                       ELSE class_symbol(value, symbol_start + 1, offset - 1),
                       POINTER_SIZE),
                offset + 1, cur_arr)

RECURSIVE next_class(_, _, _, _)
next_class(value, offset, cur_arr, prev_offset) ==
    IF offset >= Len(value)
    THEN Parsed(End, offset, cur_arr)
    ELSE
        LET symbol_start == IF prev_offset = -1 THEN offset ELSE prev_offset
            prefix == value[offset + 1]
            read == offset + 1      \* self.offset after self.read()
        IN  CASE prefix \in DOMAIN PrimitiveClasses ->
                    IF prev_offset = -1
                    THEN Parsed(ResolvedClass(PrimitiveClasses[prefix].cls,
                                              PrimitiveClasses[prefix].size),
                                read, cur_arr)
                    ELSE Parsed(Symbol(class_symbol(value, symbol_start, read - 1),
                                       POINTER_SIZE),
                                read, cur_arr)
              [] prefix = "V" ->
                    IF prev_offset = -1
                    THEN Parsed(ResolvedClass("void_cls", 0), read, cur_arr)
                    ELSE Parsed(InvalidDescriptor, read, cur_arr)
              [] prefix = "L" -> ScanClassName(value, read, cur_arr, symbol_start)
              [] prefix = "[" ->
                    IF prev_offset = -1 /\ Len(value) = 2
                    THEN IF read >= Len(value)
                         THEN Parsed([kind |-> "Undefined"], read, cur_arr)
                         ELSE LET peek == value[read + 1]
                              IN  CASE peek \in DOMAIN PrimitiveClasses ->
                                          Parsed(ResolvedClass(PrimitiveClasses[peek].arr_cls,
                                                               POINTER_SIZE),
                                                 read, cur_arr)
                                    [] peek = "V" -> Parsed(InvalidDescriptor, read, cur_arr)
                                    [] OTHER ->
                                          next_class(value, read, TRUE, symbol_start)
                    ELSE next_class(value, read, TRUE, symbol_start)
              [] prefix = ")" -> Parsed(CloseParenthesis, read, cur_arr)
              [] prefix = "(" -> Parsed(OpenParenthesis, read, cur_arr)
              [] OTHER -> Parsed(InvalidDescriptor, read, cur_arr)

\* DescriptorParser::next
next(value, offset, cur_arr) ==
    [next_class(value, offset, cur_arr, -1) EXCEPT !.cur_arr = FALSE]

\* What the match on a byte read past the end of the value can return.
PeekPastEnd ==
    {ResolvedClass(PrimitiveClasses[p].arr_cls, POINTER_SIZE) : p \in DOMAIN PrimitiveClasses}
        \cup {InvalidDescriptor, End}

\* One call of next() by the user of the parser, who stops at End and at
\* InvalidDescriptor.
DescNext ==
    /\ \/ dp_tokens = << >>
       \/ /\ dp_tokens # << >>
          /\ dp_tokens[Len(dp_tokens)].kind \notin {"End", "InvalidDescriptor"}
    /\ \E r \in {next(dp_value, dp_offset, dp_cur_arr)} :
        /\ dp_offset' = r.offset
        /\ dp_cur_arr' = r.cur_arr
        /\ IF r.token.kind = "Undefined"
           THEN \E t \in PeekPastEnd : dp_tokens' = Append(dp_tokens, t)
           ELSE dp_tokens' = Append(dp_tokens, r.token)
    /\ UNCHANGED dp_value
    /\ UNCHANGED nonDescVars

\* ---- the descriptors the parser is started on

\* the characters of class names
DescClassNames == {<<"a">>, <<"j", "/", "O">>}

\* the field types without array dimensions
BaseTypes ==
    {<<p>> : p \in DOMAIN PrimitiveClasses}
        \cup {<<"L">> \o n \o <<";">> : n \in DescClassNames}

RECURSIVE Brackets(_)
Brackets(n) == IF n = 0 THEN << >> ELSE <<"[">> \o Brackets(n - 1)

\* every valid field descriptor with at most MaxArrayDims dimensions
FieldDescriptors == {Brackets(n) \o b : n \in 0..MaxArrayDims, b \in BaseTypes}

\* the parameter and return types of the method descriptors
ParamTypes ==
    {<<"I">>, <<"[", "I">>, <<"L", "a", ";">>, <<"[", "[", "J">>, <<"[", "L", "a", ";">>}

RECURSIVE ParamLists(_)
ParamLists(n) ==
    IF n = 0 THEN {<< >>}
    ELSE ParamLists(n - 1) \cup {l \o <<p>> : l \in ParamLists(n - 1), p \in ParamTypes}

\* valid method descriptors with at most MaxParams parameters
MethodDescriptors ==
    {<<"(">> \o Flatten(l) \o <<")">> \o r :
        l \in ParamLists(MaxParams), r \in ParamTypes \cup {<<"V">>}}

\* values that are no descriptor
BadDescriptors ==
    {<<"[", "V">>, <<"L", "a">>, <<"I", "[">>, <<"Q">>, <<"(", "V", ")", "V">>}

InitDesc ==
    /\ dp_value \in FieldDescriptors \cup MethodDescriptors \cup BadDescriptors
    /\ dp_offset = 0
    /\ dp_cur_arr = FALSE
    /\ dp_tokens = << >>
    /\ NonDescIdle

NextDesc == DescNext

SpecDesc == InitDesc /\ [][NextDesc]_vars

\* ---- re-emitting the tokens

\* the descriptor of each preloaded class
PreloadedDescriptor(cls) ==
    IF cls = "void_cls" THEN <<"V">>
    ELSE LET p == TheOne({q \in DOMAIN PrimitiveClasses :
                            cls \in {PrimitiveClasses[q].cls, PrimitiveClasses[q].arr_cls}})
         IN  IF cls = PrimitiveClasses[p].cls THEN <<p>> ELSE <<"[", p>>

\* The descriptor characters a token stands for: a class symbol is written
\* L<name>; and an array symbol is its own descriptor.
Emit(token) ==
    CASE token.kind = "ResolvedClass" -> PreloadedDescriptor(token.cls)
      [] token.kind = "Symbol" ->
            IF token.symbol # << >> /\ Head(token.symbol) = "["
            THEN token.symbol
            ELSE <<"L">> \o token.symbol \o <<";">>
      [] token.kind = "OpenParenthesis" -> <<"(">>
      [] token.kind = "CloseParenthesis" -> <<")">>
      [] OTHER -> << >>

EmitAll(tokens) == Flatten([i \in DOMAIN tokens |-> Emit(tokens[i])])

\* the size of a value of a field type
ValueSize(descriptor) ==
    IF Len(descriptor) = 1 /\ Head(descriptor) \in DOMAIN PrimitiveClasses
    THEN PrimitiveClasses[Head(descriptor)].size
    ELSE POINTER_SIZE

DescEnded == dp_tokens # << >> /\ dp_tokens[Len(dp_tokens)] = End

\* The first next() on a field descriptor returns one token that re-emits to
\* the descriptor and has the size of its values, and the second returns End.
FieldRoundTrip ==
    dp_value \in FieldDescriptors =>
        /\ Len(dp_tokens) >= 1 =>
            /\ dp_tokens[1].kind \in {"ResolvedClass", "Symbol"}
            /\ Emit(dp_tokens[1]) = dp_value
            /\ dp_tokens[1].size = ValueSize(dp_value)
        /\ Len(dp_tokens) >= 2 => dp_tokens[2] = End

\* The tokens of a method descriptor are "(", one token per parameter, ")",
\* the return type and End, and re-emit to the descriptor.
MethodRoundTrip ==
    (dp_value \in MethodDescriptors /\ DescEnded) =>
        LET tokens == SubSeq(dp_tokens, 1, Len(dp_tokens) - 1)
            n == Len(tokens)
        IN  /\ n >= 3
            /\ tokens[1] = OpenParenthesis
            /\ tokens[n - 1] = CloseParenthesis
            /\ \A i \in 2..n : i # n - 1 => tokens[i].kind \in {"ResolvedClass", "Symbol"}
            /\ EmitAll(tokens) = dp_value

\* C18: the tokens of successive next() calls on a valid field descriptor
\* re-emit to exactly the descriptor and are followed by End (also for
\* one-dimensional primitive arrays such as [I), and the parameter list and
\* the return type of a valid method descriptor round-trip in the same way.
C18_DescriptorRoundTrip == FieldRoundTrip /\ MethodRoundTrip

-----------------------------------------------------------------------------
(***************************************************************************)
(* The class file parser (classfile/parser.rs) over a ClassReader          *)
(* (classfile/reader.rs) and the ConstantPool (object/constant_pool.rs).   *)
(* A class file is a sequence of bytes 0..255.  The parser is a function   *)
(* of the bytes and of the build profile: debug_assert! and the overflow   *)
(* checks are compiled in only when debug assertions are on.               *)
(***************************************************************************)

\* enum ClassLoadErr, and the two ways in which parse_class ends without
\* returning: a panic, and behaviour the language leaves undefined
InvalidFormat(msg) == [kind |-> "InvalidFormat", msg |-> msg]

VerifyFailed(msg) == [kind |-> "VerifyFailed", msg |-> msg]

Panic(msg) == [kind |-> "panic", msg |-> msg]

Undefined(msg) == [kind |-> "undefined", msg |-> msg]

NoErr == << >>

\* The reader while parsing: ClassReader::offset, the error that ended the
\* parse (the ? operator returns it from every caller), the value read last.
Reader0 == [offset |-> 0, err |-> NoErr, val |-> 0]

Running(rd) == rd.err = NoErr

Fail(rd, err) == IF Running(rd) THEN [rd EXCEPT !.err = err] ELSE rd

read_ubyte1(bytes, rd) ==
    IF ~Running(rd) THEN rd
    ELSE IF rd.offset + 1 > Len(bytes)
    THEN Fail(rd, InvalidFormat("out of range, expected 1 byte"))
    ELSE [rd EXCEPT !.val = bytes[rd.offset + 1], !.offset = @ + 1]

read_ubyte2(bytes, rd) ==
    IF ~Running(rd) THEN rd
    ELSE IF rd.offset + 2 > Len(bytes)
    THEN Fail(rd, InvalidFormat("out of range, expected 2 bytes"))
    ELSE [rd EXCEPT !.val = bytes[rd.offset + 1] * 256 + bytes[rd.offset + 2],
                    !.offset = @ + 2]

\* The u32 is kept as its four big-endian bytes.
read_ubyte4(bytes, rd) ==
    IF ~Running(rd) THEN rd
    ELSE IF rd.offset + 4 > Len(bytes)
    THEN Fail(rd, InvalidFormat("out of range, expected 4 bytes"))
    ELSE [rd EXCEPT !.val = SubSeq(bytes, rd.offset + 1, rd.offset + 4),
                    !.offset = @ + 4]

peek_nbytes(bytes, rd, n) ==
    IF ~Running(rd) THEN rd
    ELSE IF rd.offset + n > Len(bytes)
    THEN Fail(rd, InvalidFormat("out of range, expected " \o ToString(n) \o " bytes"))
    ELSE [rd EXCEPT !.val = SubSeq(bytes, rd.offset + 1, rd.offset + n)]

\* ClassReader::skip: no check against the length
skip(rd, size) == IF Running(rd) THEN [rd EXCEPT !.offset = @ + size] ELSE rd

\* `u32 as usize`
as_usize(ubyte4) == UnsignedBE(ubyte4)

\* CLASS_FILE_MAGIC, 0xCAFEBABE, as read_ubyte4 returns it
CLASS_FILE_MAGIC == <<202, 254, 186, 190>>

major_version_is_support(major_version) == major_version \in 45..57

\* the bytes 0x80..0xBF, which continue a character
Utf8Continuation == 128..191

\* the number of bytes of the character that b starts; 0 if b starts none
Utf8CharWidth(b) ==
    IF b < 128 THEN 1
    ELSE IF b \in 194..223 THEN 2
    ELSE IF b \in 224..239 THEN 3
    ELSE IF b \in 240..244 THEN 4
    ELSE 0

\* bytes[i] starts a well-formed character that the bytes hold whole
Utf8CharAt(bytes, i) ==
    LET b == bytes[i]
        n == Utf8CharWidth(b)
        low == IF b = 224 THEN 160 ELSE IF b = 240 THEN 144 ELSE 128
        high == IF b = 237 THEN 159 ELSE IF b = 244 THEN 143 ELSE 191
    IN  /\ n # 0
        /\ i + n - 1 <= Len(bytes)
        /\ n >= 2 => bytes[i + 1] \in low..high
        /\ \A k \in 2..(n - 1) : bytes[i + k] \in Utf8Continuation

\* std::str::from_utf8 accepts the bytes: every byte that continues no
\* character starts a well-formed one, which the end of the bytes or such a
\* byte follows
from_utf8(bytes) ==
    \A i \in DOMAIN bytes :
        bytes[i] \notin Utf8Continuation =>
            /\ Utf8CharAt(bytes, i)
            /\ LET after == i + Utf8CharWidth(bytes[i])
               IN  after <= Len(bytes) => bytes[after] \notin Utf8Continuation

\* The printable ASCII characters, from the space (32) to the tilde (126);
\* the grave accent (96), which no name of a class file here holds, is
\* written as its number.
Ascii ==
    <<" ", "!", "\"", "#", "$", "%", "&", "'", "(", ")", "*", "+", ",", "-", ".", "/",
      "0", "1", "2", "3", "4", "5", "6", "7", "8", "9", ":", ";", "<", "=", ">", "?",
      "@", "A", "B", "C", "D", "E", "F", "G", "H", "I", "J", "K", "L", "M", "N", "O",
      "P", "Q", "R", "S", "T", "U", "V", "W", "X", "Y", "Z", "[", "\\", "]", "^", "_",
      "96", "a", "b", "c", "d", "e", "f", "g", "h", "i", "j", "k", "l", "m", "n", "o",
      "p", "q", "r", "s", "t", "u", "v", "w", "x", "y", "z", "{", "|", "}", "~">>

\* a byte of a symbol as a character; other bytes as their number
Chr(b) == IF b \in 32..126 THEN Ascii[b - 31] ELSE ToString(b)

\* Symbol::as_bytes, as the characters the descriptor parser works on
as_chars(symbol) == [i \in DOMAIN symbol |-> Chr(symbol[i])]

\* Symbol::as_str
RECURSIVE as_str(_)
as_str(symbol) ==
    IF symbol = << >> THEN ""
    ELSE IF Len(symbol) = 1 THEN Chr(symbol[1])
    ELSE LET half == Len(symbol) \div 2
         IN  as_str(SubSeq(symbol, 1, half))
                \o as_str(SubSeq(symbol, half + 1, Len(symbol)))

\* ---- the constant pool

\* enum ConstantTag
ConstantTag ==
    [Invalid |-> 0, Utf8 |-> 1, Integer |-> 3, Float |-> 4, Long |-> 5, Double |-> 6,
     Class |-> 7, String |-> 8, Fieldref |-> 9, Methodref |-> 10,
     InterfaceMethodref |-> 11, NameAndType |-> 12, MethodHandle |-> 15,
     MethodType |-> 16, InvokeDynamic |-> 18, ClassName |-> 101]

ConstantTags == {ConstantTag[t] : t \in DOMAIN ConstantTag}

\* ConstantPool::new: `length` slots that nothing has been written to
ConstantPoolNew(length) ==
    [i \in 0..(length - 1) |-> [tag |-> 0, val |-> 0, written |-> FALSE]]

\* a slot after one of the ConstantPool::set_... functions
Slot(tag, val) == [tag |-> tag, val |-> val, written |-> TRUE]

cp_length(cp) == Cardinality(DOMAIN cp)

\* the widths of the operands that parse_constant_pool reads after a tag
CpOperands(tag) ==
    CASE tag \in {ConstantTag.Integer, ConstantTag.Float} -> <<4>>
      [] tag \in {ConstantTag.Long, ConstantTag.Double} -> <<4, 4>>
      [] tag \in {ConstantTag.Class, ConstantTag.String, ConstantTag.MethodType} -> <<2>>
      [] tag \in {ConstantTag.Fieldref, ConstantTag.Methodref,
                  ConstantTag.InterfaceMethodref, ConstantTag.NameAndType,
                  ConstantTag.InvokeDynamic} -> <<2, 2>>
      [] tag = ConstantTag.MethodHandle -> <<1, 2>>
      [] OTHER -> << >>

\* reads operands of the widths given; val is the sequence of their values
RECURSIVE ReadOperands(_, _, _, _)
ReadOperands(bytes, rd, widths, vals) ==
    IF widths = << >> \/ ~Running(rd) THEN [rd EXCEPT !.val = vals]
    ELSE LET r == CASE Head(widths) = 1 -> read_ubyte1(bytes, rd)
                    [] Head(widths) = 2 -> read_ubyte2(bytes, rd)
                    [] Head(widths) = 4 -> read_ubyte4(bytes, rd)
         IN  ReadOperands(bytes, r, Tail(widths), Append(vals, r.val))

\* The state of the loop of parse_constant_pool: the reader, the pool and
\* the index of the entry to read.
CpState(rd, cp, index) == [rd |-> rd, cp |-> cp, index |-> index]

\* the body of the loop of parse_constant_pool: the entry at st.index
CpEntry(bytes, st) ==
    LET cp == st.cp
        index == st.index
        t == read_ubyte1(bytes, st.rd)
        tag == t.val
        stop(rd) == CpState(rd, cp, index)
    IN  IF ~Running(t) THEN stop(t)
        ELSE IF tag \notin ConstantTags
        THEN stop(Fail(t, Undefined("ConstantTag::from: no such enum value")))
        ELSE IF tag = ConstantTag.Utf8
        THEN LET l == read_ubyte2(bytes, t)
                 p == IF Running(l) THEN peek_nbytes(bytes, l, l.val) ELSE l
             IN  IF ~Running(p) THEN stop(p)
                 ELSE IF ~from_utf8(p.val)
                 THEN stop(Fail(p, InvalidFormat("invalid CONSTANT_Utf8")))
                 ELSE IF index \notin DOMAIN cp
                 THEN stop(Fail(p, Panic("index out of bound")))
                 ELSE CpState(skip(p, l.val), [cp EXCEPT ![index] = Slot(tag, p.val)],
                              index + 1)
        ELSE
            LET o == ReadOperands(bytes, t, CpOperands(tag), << >>)
                wide == tag \in {ConstantTag.Long, ConstantTag.Double}
                invalid == tag \in {ConstantTag.Invalid, ConstantTag.ClassName}
                val == IF Len(o.val) = 1 THEN o.val[1] ELSE o.val
            IN  IF ~Running(o) THEN stop(o)
                ELSE IF index \notin DOMAIN cp
                THEN stop(Fail(o, Panic("index out of bound")))
                ELSE CpState(IF invalid THEN skip(o, 1) ELSE o,
                             [cp EXCEPT ![index] =
                                  Slot(IF invalid THEN ConstantTag.Invalid ELSE tag, val)],
                             IF wide THEN index + 2 ELSE index + 1)

\* The loop of parse_constant_pool, `while index <= last`, for at most n
\* passes; `last` is cp_count - 1.  The passes are halved so that the
\* evaluation nests no deeper than the logarithm of their number.
RECURSIVE CpEntries(_, _, _, _)
CpEntries(bytes, st, last, n) ==
    IF ~Running(st.rd) \/ st.index > last \/ n = 0 THEN st
    ELSE IF n = 1 THEN CpEntry(bytes, st)
    ELSE LET half == CpEntries(bytes, st, last, n \div 2)
         IN  IF ~Running(half.rd) \/ half.index > last THEN half
             ELSE CpEntries(bytes, half, last, n - (n \div 2))

\* ClassParser::parse_constant_pool.  With a cp_count of 0 the u16
\* `cp_count - 1` overflows: a panic with the overflow checks of a debug
\* build, 65535 without them.  Every pass of the loop adds at least 1 to
\* the index, so that `last` passes are enough.
parse_constant_pool(bytes, rd, debug) ==
    LET c == read_ubyte2(bytes, rd)
    IN  IF ~Running(c) THEN [rd |-> c, cp |-> << >>]
        ELSE IF c.val = 0 /\ debug
        THEN [rd |-> Fail(c, Panic("attempt to subtract with overflow")), cp |-> << >>]
        ELSE LET last == IF c.val = 0 THEN 65535 ELSE c.val - 1
                 st == CpEntries(bytes, CpState(c, ConstantPoolNew(c.val), 1), last, last)
             IN  [rd |-> st.rd, cp |-> st.cp]

\* The result of a constant pool accessor: the symbol, or how the access
\* ended the parse.
Got(symbol) == [err |-> NoErr, symbol |-> symbol]

NotGot(err) == [err |-> err, symbol |-> << >>]

\* ConstantPool::get_utf8: the tag is checked by a debug_assert only, and
\* the index is not checked against the length.
get_utf8(cp, index, debug) ==
    IF index \notin DOMAIN cp
    THEN NotGot(Undefined("get_utf8: index beyond the constant pool"))
    ELSE IF ~cp[index].written
    THEN NotGot(Undefined("get_utf8: slot never written"))
    ELSE IF cp[index].tag = ConstantTag.Utf8 THEN Got(cp[index].val)
    ELSE IF debug THEN NotGot(Panic("assertion failed: tag == Utf8"))
    ELSE NotGot(Undefined("get_utf8: slot does not hold a symbol"))

\* ConstantPool::get_name_type_info, the name
get_name_type_info(cp, index, debug) ==
    IF ~cp[index].written
    THEN NotGot(Undefined("get_name_type_info: slot never written"))
    ELSE IF cp[index].tag # ConstantTag.NameAndType
    THEN NotGot(Panic("assertion failed: index_tag == NameAndType"))
    ELSE get_utf8(cp, cp[index].val[1], debug)

\* ConstantPool::get_class_name
get_class_name(cp, index, debug) ==
    IF index \notin DOMAIN cp
    THEN NotGot(Undefined("get_class_name: index beyond the constant pool"))
    ELSE IF ~cp[index].written
    THEN NotGot(Undefined("get_class_name: slot never written"))
    ELSE IF cp[index].tag # ConstantTag.Class
    THEN NotGot(Panic("assertion failed: index_tag == Class"))
    ELSE LET name_index == cp[index].val
         IN  IF ~(name_index < cp_length(cp))
             THEN NotGot(Panic("assertion failed: name_index < length"))
             ELSE IF ~cp[name_index].written
             THEN NotGot(Undefined("get_class_name: slot never written"))
             ELSE IF cp[name_index].tag = ConstantTag.Utf8
             THEN get_utf8(cp, name_index, debug)
             ELSE get_name_type_info(cp, name_index, debug)

\* ---- the class loader as the parser sees it

\* The classes the bootstrap class loader can deliver: the name (as_str) and
\* whether the class is an interface.
LoaderClasses == [n \in {"java/lang/Object", "I"} |-> [is_interface |-> n = "I"]]

\* BootstrapClassLoader::load_class: the class, or todo!() for a class that
\* is not on the class path
load_class(class_name) ==
    IF class_name = << >> THEN NotGot(Panic("assertion failed: class_name.len() > 0"))
    ELSE IF as_str(class_name) \in DOMAIN LoaderClasses THEN Got(class_name)
    ELSE NotGot(Panic("not yet implemented: throw ClassNotFoundException"))

\* `flags & bit != 0` for a bit 2^k
HasFlag(flags, bit) == (flags \div bit) % 2 = 1

AccStatic == 8

\* Let([name \in {v} |-> K]): the statements K after `let name = v;`
Let(f) == f[CHOOSE v \in DOMAIN f : TRUE]

\* ---- interfaces

RECURSIVE InterfacesLoop(_, _, _, _, _, _)
InterfacesLoop(bytes, rd, cp, debug, count, interfaces) ==
    IF ~Running(rd) \/ count = 0 THEN [rd |-> rd, interfaces |-> interfaces]
    ELSE
        Let([i \in {read_ubyte2(bytes, rd)} |->
        Let([n \in {IF Running(i) THEN get_class_name(cp, i.val, debug) ELSE NotGot(i.err)} |->
        Let([c \in {IF n.err = NoErr THEN load_class(n.symbol) ELSE n} |->
            IF c.err # NoErr THEN [rd |-> Fail(i, c.err), interfaces |-> interfaces]
            ELSE IF ~LoaderClasses[as_str(c.symbol)].is_interface
            THEN [rd |-> Fail(i, VerifyFailed("class file format error: invalid interface")),
                  interfaces |-> interfaces]
            ELSE InterfacesLoop(bytes, i, cp, debug, count - 1,
                                Append(interfaces, c.symbol))])])])

\* ClassParser::parse_interfaces, for a class other than java/lang/Class
parse_interfaces(bytes, rd, cp, debug) ==
    Let([l \in {read_ubyte2(bytes, rd)} |->
        IF ~Running(l) THEN [rd |-> l, interfaces |-> << >>]
        ELSE InterfacesLoop(bytes, l, cp, debug, l.val, << >>)])

\* ---- annotations

RECURSIVE parse_annotation(_, _, _, _)
RECURSIVE parse_annotation_element(_, _, _, _)
RECURSIVE AnnotationsLoop(_, _, _, _, _)
RECURSIVE ElementsLoop(_, _, _, _, _)

\* `count` times parse_annotation
AnnotationsLoop(bytes, rd, cp, debug, count) ==
    IF ~Running(rd) \/ count = 0 THEN rd
    ELSE AnnotationsLoop(bytes, parse_annotation(bytes, rd, cp, debug), cp, debug, count - 1)

\* `count` times parse_annotation_element
ElementsLoop(bytes, rd, cp, debug, count) ==
    IF ~Running(rd) \/ count = 0 THEN rd
    ELSE ElementsLoop(bytes, parse_annotation_element(bytes, rd, cp, debug), cp, debug,
                      count - 1)

parse_annotation(bytes, rd, cp, debug) ==
    Let([num_element_value_pairs \in {read_ubyte2(bytes, read_ubyte2(bytes, rd))} |->
        IF ~Running(num_element_value_pairs) THEN num_element_value_pairs
        ELSE ElementsLoop(bytes, num_element_value_pairs, cp, debug,
                          num_element_value_pairs.val)])

parse_annotation_element(bytes, rd, cp, debug) ==
    Let([element_tag \in {read_ubyte1(bytes, read_ubyte2(bytes, rd))} |->
    Let([tag \in {Chr(element_tag.val)} |->
        IF ~Running(element_tag) THEN element_tag
        ELSE CASE tag \in {"B", "C", "D", "F", "I", "J", "S", "Z", "s"} ->
                    read_ubyte2(bytes, element_tag)
               [] tag = "e" -> read_ubyte2(bytes, read_ubyte2(bytes, element_tag))
               [] tag = "c" ->
                    Let([class_index \in {read_ubyte2(bytes, element_tag)} |->
                        IF ~Running(class_index) THEN class_index
                        ELSE Fail(class_index, get_utf8(cp, class_index.val, debug).err)])
               [] tag = "@" -> parse_annotation(bytes, element_tag, cp, debug)
               [] tag = "[" ->
                    Let([num_values \in {read_ubyte2(bytes, element_tag)} |->
                        IF ~Running(num_values) THEN num_values
                        ELSE ElementsLoop(bytes, num_values, cp, debug, num_values.val)])
               [] OTHER -> element_tag])])

\* RuntimeVisibleAnnotations / RuntimeInvisibleAnnotations of a field
parse_annotations(bytes, rd, cp, debug) ==
    Let([num_annos \in {read_ubyte2(bytes, rd)} |->
        IF ~Running(num_annos) THEN num_annos
        ELSE AnnotationsLoop(bytes, num_annos, cp, debug, num_annos.val)])

\* ---- fields

\* the attributes of one field; constval is Field::constval_index
RECURSIVE FieldAttrsLoop(_, _, _, _, _, _)
FieldAttrsLoop(bytes, rd, cp, debug, count, constval) ==
    IF ~Running(rd) \/ count = 0 THEN [rd |-> rd, constval |-> constval]
    ELSE
        Let([attr_name_index \in {read_ubyte2(bytes, rd)} |->
        Let([attr_name \in
                {IF Running(attr_name_index) THEN get_utf8(cp, attr_name_index.val, debug)
             ELSE NotGot(attr_name_index.err)} |->
        Let([attr_length \in {read_ubyte4(bytes, Fail(attr_name_index, attr_name.err))} |->
        Let([attr_name_str \in {as_str(attr_name.symbol)} |->
            IF ~Running(attr_length) THEN [rd |-> attr_length, constval |-> constval]
            ELSE CASE attr_name_str = "ConstantValue" ->
                        Let([constval_index \in {read_ubyte2(bytes, attr_length)} |->
                            FieldAttrsLoop(bytes, constval_index, cp, debug, count - 1,
                                           IF Running(constval_index)
                                           THEN constval_index.val ELSE constval)])
                   [] attr_name_str = "Signature" ->
                        FieldAttrsLoop(bytes, read_ubyte2(bytes, attr_length), cp, debug,
                                       count - 1, constval)
                   [] attr_name_str \in {"RuntimeVisibleAnnotations",
                                         "RuntimeInvisibleAnnotations"} ->
                        FieldAttrsLoop(bytes, parse_annotations(bytes, attr_length, cp, debug),
                                       cp, debug, count - 1, constval)
                   [] OTHER ->
                        FieldAttrsLoop(bytes, skip(attr_length, as_usize(attr_length.val)),
                                       cp, debug, count - 1, constval)])])])])

\* the name of a field or a method: get_utf8 and the debug_assert on its length
MemberName(name_index, cp, debug) ==
    Let([name \in {IF Running(name_index) THEN get_utf8(cp, name_index.val, debug)
         ELSE NotGot(name_index.err)} |->
        IF name.err = NoErr /\ debug /\ name.symbol = << >>
        THEN NotGot(Panic("assertion failed: name.len() > 0"))
        ELSE name])

\* the loop of parse_fields
RECURSIVE FieldsLoop(_, _, _, _, _, _, _, _)
FieldsLoop(bytes, rd, cp, debug, count, fields, static_fields_layout, inst_fields_layout) ==
    IF ~Running(rd) \/ count = 0
    THEN [rd |-> rd, fields |-> fields, static_fields_layout |-> static_fields_layout,
          inst_fields_layout |-> inst_fields_layout]
    ELSE
        Let([access_flags \in {read_ubyte2(bytes, rd)} |->
        Let([name_index \in {read_ubyte2(bytes, access_flags)} |->
        Let([name \in {MemberName(name_index, cp, debug)} |->
        Let([descriptor_index \in {read_ubyte2(bytes, Fail(name_index, name.err))} |->
        Let([descriptor \in
                {IF Running(descriptor_index) THEN get_utf8(cp, descriptor_index.val, debug)
             ELSE NotGot(descriptor_index.err)} |->
        Let([attrs_count \in {read_ubyte2(bytes, Fail(descriptor_index, descriptor.err))} |->
        Let([token \in
                {IF Running(attrs_count) THEN next(as_chars(descriptor.symbol), 0, FALSE).token
             ELSE End} |->
        Let([described \in {IF ~Running(attrs_count) THEN attrs_count
             ELSE IF token.kind = "Undefined"
             THEN Fail(attrs_count, Undefined("DescriptorParser::peek beyond the descriptor"))
             ELSE IF token.kind \notin {"ResolvedClass", "Symbol"}
             THEN Fail(attrs_count, InvalidFormat("invalid descriptor for field "
                                                    \o as_str(name.symbol)))
             ELSE attrs_count} |->
            IF ~Running(described)
            THEN [rd |-> described, fields |-> fields,
                  static_fields_layout |-> static_fields_layout,
                  inst_fields_layout |-> inst_fields_layout]
            ELSE
                Let([is_static \in {HasFlag(access_flags.val, AccStatic)} |->
                Let([placed \in {obtain_field_offset(IF is_static THEN static_fields_layout
                                         ELSE inst_fields_layout, U16(token.size))} |->
                Let([attrs \in
                        {FieldAttrsLoop(bytes, attrs_count, cp, debug, attrs_count.val, 0)} |->
                    FieldsLoop(bytes, attrs.rd, cp, debug, count - 1,
                               Append(fields,
                                      [access_flags |-> access_flags.val,
                                       layout_offset |-> placed.ret,
                                       name |-> name.symbol,
                                       descriptor |-> IF token.kind = "Symbol"
                                                      THEN token.symbol
                                                      ELSE as_chars(descriptor.symbol),
                                       field_class |-> IF token.kind = "Symbol"
                                                       THEN "null" ELSE token.cls,
                                       constval_index |-> attrs.constval]),
                               IF is_static THEN placed.layout ELSE static_fields_layout,
                               IF is_static THEN inst_fields_layout
                               ELSE placed.layout)])])])])])])])])])])])

\* SharedObjects::resize_for_metadata; JavaLangThreadInfo::metadata_size is
\* size_of::<JInt>()
resize_for_metadata(class_name, inst_size) ==
    IF as_str(class_name) = "java/lang/Thread" THEN U16(inst_size + 4) ELSE inst_size

\* ClassParser::parse_fields
parse_fields(bytes, rd, cp, debug, this_class_name) ==
    Let([fields_count \in {read_ubyte2(bytes, rd)} |->
    Let([l \in {FieldsLoop(bytes, fields_count, cp, debug,
                    IF Running(fields_count) THEN fields_count.val ELSE 0,
                    << >>, FieldLayoutDefault, FieldLayoutDefault)} |->
    Let([inst_size \in {get_aligned_size(l.inst_fields_layout)} |->
        [rd |-> l.rd, fields |-> l.fields,
         static_fields_size |-> get_aligned_size(l.static_fields_layout),
         inst_size |-> resize_for_metadata(this_class_name, inst_size),
         metadata_offset |-> inst_size]])])])

\* ---- methods

\* the parse_descriptor loop of parse_methods: the parameters up to the
\* closing parenthesis
RECURSIVE ParamsLoop(_, _, _)
ParamsLoop(value, offset, params) ==
    Let([r \in {next(value, offset, FALSE)} |->
        CASE r.token.kind \in {"ResolvedClass", "Symbol"} ->
                ParamsLoop(value, r.offset, Append(params, r.token))
          [] r.token.kind = "CloseParenthesis" ->
                [err |-> NoErr, offset |-> r.offset, params |-> params]
          [] r.token.kind = "Undefined" ->
                [err |-> Undefined("DescriptorParser::peek beyond the descriptor"),
                 offset |-> r.offset, params |-> params]
          [] OTHER ->
                [err |-> InvalidFormat("invalid method descriptor"),
                 offset |-> r.offset, params |-> params]])

\* the descriptor of a method: its parameters and its return type
MethodDescriptor(value) ==
    Let([open \in {next(value, 0, FALSE)} |->
        IF open.token # OpenParenthesis
        THEN [err |-> IF open.token.kind = "Undefined"
                      THEN Undefined("DescriptorParser::peek beyond the descriptor")
                      ELSE InvalidFormat("invalid method descriptor, expected '('"),
              params |-> << >>, ret |-> << >>]
        ELSE
            Let([p \in {ParamsLoop(value, open.offset, << >>)} |->
            Let([ret \in {IF p.err = NoErr THEN next(value, p.offset, FALSE).token ELSE End} |->
                IF p.err # NoErr THEN [err |-> p.err, params |-> p.params, ret |-> << >>]
                ELSE IF ret.kind = "Undefined"
                THEN [err |-> Undefined("DescriptorParser::peek beyond the descriptor"),
                      params |-> p.params, ret |-> << >>]
                ELSE IF ret.kind \notin {"ResolvedClass", "Symbol"}
                THEN [err |-> InvalidFormat("invalid method descriptor, expected return type"),
                      params |-> p.params, ret |-> << >>]
                ELSE [err |-> NoErr, params |-> p.params, ret |-> ret]])])])

\* ClassParser::parse_code: val is the code length and the code, which is
\* the part of the class file that the code pointer and the length cover
parse_code(bytes, rd) ==
    Let([code_len \in {read_ubyte4(bytes, rd)} |->
        IF ~Running(code_len) THEN code_len
        ELSE IF code_len.val[1] # 0 \/ code_len.val[2] # 0
        THEN Fail(code_len, InvalidFormat("invalid code_length"))
        ELSE IF ~(Len(bytes) >= as_usize(code_len.val))
        THEN Fail(code_len, Panic("assertion failed: readable_length() >= code_len"))
        ELSE
            Let([end \in {code_len.offset + as_usize(code_len.val)} |->
                [code_len EXCEPT
                    !.offset = end,
                    !.val = [code_length |-> as_usize(code_len.val),
                             code |-> SubSeq(bytes, code_len.offset + 1,
                                             IF end > Len(bytes) THEN Len(bytes)
                                             ELSE end)]]])])

\* a pc of the exception table that `invalid` holds of
CheckedPc(pc, invalid) ==
    IF Running(pc) /\ invalid
    THEN Fail(pc, InvalidFormat("invalid exception_table"))
    ELSE pc

\* ClassParser::parse_ex_tab; val is the exception table
RECURSIVE ExTabLoop(_, _, _, _, _, _, _)
ExTabLoop(bytes, rd, cp, debug, code_length, count, result) ==
    IF ~Running(rd) \/ count = 0 THEN [rd EXCEPT !.val = result]
    ELSE
        Let([start_pc \in {read_ubyte2(bytes, rd)} |->
        Let([end_pc \in
                {read_ubyte2(bytes, CheckedPc(start_pc, start_pc.val >= code_length))} |->
        Let([handler_pc \in {read_ubyte2(bytes, CheckedPc(end_pc, end_pc.val > code_length
                                                    \/ start_pc.val >= end_pc.val))} |->
        Let([catch_type \in
                {read_ubyte2(bytes, CheckedPc(handler_pc, handler_pc.val > code_length))} |->
        Let([c \in {IF Running(catch_type) /\ catch_type.val # 0
             THEN Fail(catch_type, get_class_name(cp, catch_type.val, debug).err)
             ELSE catch_type} |->
            IF ~Running(c) THEN c
            ELSE ExTabLoop(bytes, c, cp, debug, code_length, count - 1,
                           Append(result, <<start_pc.val, end_pc.val, handler_pc.val,
                                            catch_type.val>>))])])])])])

parse_ex_tab(bytes, rd, cp, debug, code_length) ==
    Let([ex_tab_length \in {read_ubyte2(bytes, rd)} |->
        IF ~Running(ex_tab_length) THEN ex_tab_length
        ELSE ExTabLoop(bytes, ex_tab_length, cp, debug, code_length, ex_tab_length.val,
                       << >>)])

\* the attributes of a Code attribute: all skipped
RECURSIVE CodeAttrsLoop(_, _, _)
CodeAttrsLoop(bytes, rd, count) ==
    IF ~Running(rd) \/ count = 0 THEN rd
    ELSE Let([code_attr_length \in {read_ubyte4(bytes, read_ubyte2(bytes, rd))} |->
            IF ~Running(code_attr_length) THEN code_attr_length
            ELSE CodeAttrsLoop(bytes, skip(code_attr_length, as_usize(code_attr_length.val)),
                               count - 1)])

NoCode == [max_stack |-> 0, max_locals |-> 0, code |-> << >>, ex_tab |-> << >>]

\* the "Code" arm of the attributes of a method; val is the code
CodeAttribute(bytes, rd, cp, debug) ==
    Let([max_stack \in {read_ubyte2(bytes, rd)} |->
    Let([max_locals \in {read_ubyte2(bytes, max_stack)} |->
    Let([body \in {parse_code(bytes, max_locals)} |->
    Let([ex_tab \in
            {IF Running(body) THEN parse_ex_tab(bytes, body, cp, debug, body.val.code_length)
         ELSE body} |->
    Let([code_attrs_count \in {read_ubyte2(bytes, ex_tab)} |->
    Let([done \in {IF Running(code_attrs_count)
         THEN CodeAttrsLoop(bytes, code_attrs_count, code_attrs_count.val)
         ELSE code_attrs_count} |->
        IF ~Running(done) THEN done
        ELSE [done EXCEPT !.val = [max_stack |-> max_stack.val,
                                   max_locals |-> max_locals.val,
                                   code |-> body.val.code,
                                   ex_tab |-> ex_tab.val]]])])])])])])

\* the attributes of one method
RECURSIVE MethodAttrsLoop(_, _, _, _, _, _)
MethodAttrsLoop(bytes, rd, cp, debug, count, code) ==
    IF ~Running(rd) \/ count = 0 THEN [rd |-> rd, code |-> code]
    ELSE
        Let([attr_name_index \in {read_ubyte2(bytes, rd)} |->
        Let([checked \in {IF Running(attr_name_index) /\ attr_name_index.val > cp_length(cp)
             THEN Fail(attr_name_index, InvalidFormat("invalid method attr index"))
             ELSE attr_name_index} |->
        Let([attr_length \in {read_ubyte4(bytes, checked)} |->
        Let([attr_name \in
                {IF Running(attr_length) THEN get_utf8(cp, attr_name_index.val, debug)
             ELSE NotGot(attr_length.err)} |->
            IF attr_name.err # NoErr
            THEN [rd |-> Fail(attr_length, attr_name.err), code |-> code]
            ELSE IF as_str(attr_name.symbol) = "Code"
            THEN Let([done \in {CodeAttribute(bytes, attr_length, cp, debug)} |->
                    IF ~Running(done) THEN [rd |-> done, code |-> code]
                    ELSE MethodAttrsLoop(bytes, done, cp, debug, count - 1, done.val)])
            ELSE MethodAttrsLoop(bytes, skip(attr_length, as_usize(attr_length.val)),
                                 cp, debug, count - 1, code)])])])])

\* the loop of parse_methods; init_method is the index of <clinit>, or 0
RECURSIVE MethodsLoop(_, _, _, _, _, _, _)
MethodsLoop(bytes, rd, cp, debug, count, methods, init_method) ==
    IF ~Running(rd) \/ count = 0
    THEN [rd |-> rd, methods |-> methods, init_method |-> init_method]
    ELSE
        Let([access_flags \in {read_ubyte2(bytes, rd)} |->
        Let([name_index \in {read_ubyte2(bytes, access_flags)} |->
        Let([name \in {MemberName(name_index, cp, debug)} |->
        Let([descriptor_index \in {read_ubyte2(bytes, Fail(name_index, name.err))} |->
        Let([descriptor \in
                {IF Running(descriptor_index) THEN get_utf8(cp, descriptor_index.val, debug)
             ELSE NotGot(descriptor_index.err)} |->
        Let([parsed \in
                {IF descriptor.err = NoErr THEN MethodDescriptor(as_chars(descriptor.symbol))
             ELSE [err |-> descriptor.err, params |-> << >>, ret |-> << >>]} |->
        Let([attrs_count \in {read_ubyte2(bytes, Fail(descriptor_index, parsed.err))} |->
        Let([attrs \in {IF Running(attrs_count)
             THEN MethodAttrsLoop(bytes, attrs_count, cp, debug, attrs_count.val, NoCode)
             ELSE [rd |-> attrs_count, code |-> NoCode]} |->
            IF ~Running(attrs.rd)
            THEN [rd |-> attrs.rd, methods |-> methods, init_method |-> init_method]
            ELSE MethodsLoop(bytes, attrs.rd, cp, debug, count - 1,
                             Append(methods,
                                    [access_flags |-> access_flags.val,
                                     name |-> name.symbol,
                                     descriptor |-> descriptor.symbol,
                                     params |-> parsed.params,
                                     ret |-> parsed.ret,
                                     max_stack |-> attrs.code.max_stack,
                                     max_locals |-> attrs.code.max_locals,
                                     code |-> attrs.code.code,
                                     ex_tab |-> attrs.code.ex_tab]),
                             IF as_str(name.symbol) = "<clinit>"
                             THEN Len(methods) + 1 ELSE init_method)])])])])])])])])

\* ClassParser::parse_methods
parse_methods(bytes, rd, cp, debug) ==
    Let([methods_count \in {read_ubyte2(bytes, rd)} |->
        IF ~Running(methods_count)
        THEN [rd |-> methods_count, methods |-> << >>, init_method |-> 0]
        ELSE MethodsLoop(bytes, methods_count, cp, debug, methods_count.val, << >>, 0)])

\* ---- the attributes of the class

\* the four u16 of every inner class and the lookup of its name
RECURSIVE InnerClassesLoop(_, _, _, _, _)
InnerClassesLoop(bytes, rd, cp, debug, count) ==
    IF ~Running(rd) \/ count = 0 THEN rd
    ELSE
        Let([inner_class_info_index \in {read_ubyte2(bytes, rd)} |->
        Let([flags \in {read_ubyte2(bytes, read_ubyte2(bytes,
                read_ubyte2(bytes, inner_class_info_index)))} |->
            IF ~Running(flags) THEN flags
            ELSE InnerClassesLoop(bytes,
                    Fail(flags, get_class_name(cp, inner_class_info_index.val, debug).err),
                    cp, debug, count - 1)])])

\* one attribute of the class, of the name and the length given; the reader
\* after it
ClassAttribute(bytes, attr_length, cp, debug, attr_name_str) ==
    CASE attr_name_str = "InnerClasses" ->
            Let([num_inners \in {read_ubyte2(bytes, attr_length)} |->
                IF ~Running(num_inners) THEN num_inners
                ELSE InnerClassesLoop(bytes, num_inners, cp, debug, num_inners.val)])
      [] attr_name_str = "EnclosingMethod" ->
            Let([class_index \in {read_ubyte2(bytes, attr_length)} |->
            Let([method_index \in {read_ubyte2(bytes, class_index)} |->
                IF Running(method_index) /\ debug /\ class_index.val = 0
                THEN Fail(method_index, Panic("assertion failed: class_index != 0"))
                ELSE method_index])])
      [] attr_name_str = "Synthetic" ->
            Fail(attr_length, Panic("not yet implemented"))
      [] attr_name_str = "Signature" ->
            Let([signature_index \in {read_ubyte2(bytes, attr_length)} |->
                IF ~Running(signature_index) THEN signature_index
                ELSE Fail(signature_index, get_utf8(cp, signature_index.val, debug).err)])
      [] attr_name_str \in {"SourceFile", "SourceDebugExtension", "Deprecated",
                            "RuntimeVisibleAnnotations", "RuntimeInvisibleAnnotations",
                            "BootstrapMethods"} ->
            skip(attr_length, as_usize(attr_length.val))
      [] OTHER ->
            Fail(attr_length, InvalidFormat("unsupported attribute: " \o attr_name_str))

\* the loop of parse_class_attrs
RECURSIVE ClassAttrsLoop(_, _, _, _, _)
ClassAttrsLoop(bytes, rd, cp, debug, count) ==
    IF ~Running(rd) \/ count = 0 THEN rd
    ELSE
        Let([attr_name_index \in {read_ubyte2(bytes, rd)} |->
        Let([attr_length \in {read_ubyte4(bytes, attr_name_index)} |->
        Let([attr_name \in
                {IF Running(attr_length) THEN get_utf8(cp, attr_name_index.val, debug)
             ELSE NotGot(attr_length.err)} |->
            IF attr_name.err # NoErr THEN Fail(attr_length, attr_name.err)
            ELSE ClassAttrsLoop(bytes,
                                ClassAttribute(bytes, attr_length, cp, debug,
                                               as_str(attr_name.symbol)),
                                cp, debug, count - 1)])])])

\* ClassParser::parse_class_attrs
parse_class_attrs(bytes, rd, cp, debug) ==
    Let([class_attrs_count \in {read_ubyte2(bytes, rd)} |->
        IF ~Running(class_attrs_count) THEN class_attrs_count
        ELSE ClassAttrsLoop(bytes, class_attrs_count, cp, debug, class_attrs_count.val)])

\* ---- parse_class

\* The outcome of parse_class: Ok(class), Err(ClassLoadErr), a panic, or
\* undefined behaviour.
ParseOk(class, offset) ==
    [kind |-> "Ok", err |-> NoErr, class |-> class, offset |-> offset]

ParseEnds(err, offset) ==
    [kind |-> IF err.kind \in {"panic", "undefined"} THEN err.kind ELSE "Err",
     err |-> err, class |-> << >>, offset |-> offset]

\* the magic number and the version of the class file
ParseVersion(bytes) ==
    Let([magic \in {read_ubyte4(bytes, Reader0)} |->
    Let([m \in {IF Running(magic) /\ magic.val # CLASS_FILE_MAGIC
         THEN Fail(magic, InvalidFormat("cannot identify the magic number"))
         ELSE magic} |->
    Let([major_version \in {read_ubyte2(bytes, read_ubyte2(bytes, m))} |->
        IF Running(major_version) /\ ~major_version_is_support(major_version.val)
        THEN Fail(major_version, InvalidFormat("unsupported class file version"))
        ELSE major_version])])])

\* ClassParser::parse_class, for a class other than java/lang/Class.  The
\* method table of the class (VTable::obtain_vtab_info) is the subject of the
\* method table section and is not part of the class here.
parse_class(bytes, debug) ==
    Let([pool \in {parse_constant_pool(bytes, ParseVersion(bytes), debug)} |->
    Let([access_flags \in {read_ubyte2(bytes, pool.rd)} |->
    Let([this_class \in {read_ubyte2(bytes, access_flags)} |->
    Let([class_name \in
            {IF Running(this_class) THEN get_class_name(pool.cp, this_class.val, debug)
         ELSE NotGot(this_class.err)} |->
    Let([super_class_index \in {read_ubyte2(bytes, Fail(this_class, class_name.err))} |->
    Let([super_class_name \in {IF Running(super_class_index) /\ super_class_index.val # 0
         THEN get_class_name(pool.cp, super_class_index.val, debug)
         ELSE Got(<< >>)} |->
    Let([ifaces \in {parse_interfaces(bytes, Fail(super_class_index, super_class_name.err),
                          pool.cp, debug)} |->
    Let([parsed_fields \in
            {parse_fields(bytes, ifaces.rd, pool.cp, debug, class_name.symbol)} |->
    Let([parsed_methods \in {parse_methods(bytes, parsed_fields.rd, pool.cp, debug)} |->
    Let([super_class \in {IF Running(parsed_methods.rd) /\ super_class_index.val # 0
         THEN load_class(super_class_name.symbol)
         ELSE Got(<< >>)} |->
    Let([attrs \in
            {parse_class_attrs(bytes, Fail(parsed_methods.rd, super_class.err), pool.cp, debug)} |->
        IF ~Running(attrs) THEN ParseEnds(attrs.err, attrs.offset)
        ELSE IF debug /\ attrs.offset > Len(bytes)
        THEN ParseEnds(Panic("range start index out of range for slice"), attrs.offset)
        ELSE IF debug /\ attrs.offset # Len(bytes)
        THEN ParseEnds(Panic("assertion failed: available_bytes().len() == 0"),
                       attrs.offset)
        ELSE ParseOk([access_flags |-> access_flags.val,
                      name |-> class_name.symbol,
                      super_class |-> super_class.symbol,
                      interfaces |-> ifaces.interfaces,
                      fields |-> parsed_fields.fields,
                      methods |-> parsed_methods.methods,
                      static_fields_size |-> parsed_fields.static_fields_size,
                      inst_size |-> parsed_fields.inst_size,
                      metadata_offset |-> parsed_fields.metadata_offset,
                      init_method |-> parsed_methods.init_method],
                     attrs.offset)])])])])])])])])])])])

\* ---- the class files the parser is started on

\* the longest list of class attributes in a class file
MaxAttrs == 2

\* u2 and u4 items of a class file
U2(n) == <<n \div 256, n % 256>>

U4(n) == <<0, 0>> \o U2(n)

\* a CONSTANT_Utf8_info and a CONSTANT_Class_info
Utf8Info(bytes) == <<ConstantTag.Utf8>> \o U2(Len(bytes)) \o bytes

ClassInfo(name_index) == <<ConstantTag.Class>> \o U2(name_index)

\* The attributes of the class files: the bytes of the name, and the body.
\* Constant 9 is an Integer and constant 10 the Utf8 "x".
Attributes ==
    [Code |->
        [name |-> <<67, 111, 100, 101>>,
         body |-> U2(1) \o U2(1) \o U4(1) \o <<JvmInstruction.Return>> \o U2(0) \o U2(0)],
     ConstantValue |->
        [name |-> <<67, 111, 110, 115, 116, 97, 110, 116, 86, 97, 108, 117, 101>>,
         body |-> U2(9)],
     SourceFile |->
        [name |-> <<83, 111, 117, 114, 99, 101, 70, 105, 108, 101>>, body |-> U2(10)],
     Signature |->
        [name |-> <<83, 105, 103, 110, 97, 116, 117, 114, 101>>, body |-> U2(10)],
     InnerClasses |->
        [name |-> <<73, 110, 110, 101, 114, 67, 108, 97, 115, 115, 101, 115>>,
         body |-> U2(0)],
     RuntimeVisibleAnnotations |->
        [name |-> <<82, 117, 110, 116, 105, 109, 101, 86, 105, 115, 105, 98, 108, 101,
                    65, 110, 110, 111, 116, 97, 116, 105, 111, 110, 115>>,
         body |-> U2(1) \o U2(10) \o U2(0)],
     Deprecated |->
        [name |-> <<68, 101, 112, 114, 101, 99, 97, 116, 101, 100>>, body |-> << >>],
     Synthetic |->
        [name |-> <<83, 121, 110, 116, 104, 101, 116, 105, 99>>, body |-> << >>],
     NestHost |->
        [name |-> <<78, 101, 115, 116, 72, 111, 115, 116>>, body |-> U2(2)]]

\* the order of the attribute names in the constant pool, from constant 13 on
AttributeNames ==
    <<"Code", "ConstantValue", "SourceFile", "Signature", "InnerClasses",
      "RuntimeVisibleAnnotations", "Deprecated", "Synthetic", "NestHost">>

NameIndex(attr) ==
    12 + TheOne({i \in DOMAIN AttributeNames : AttributeNames[i] = attr})

\* attribute_info
AttributeInfo(attr) ==
    U2(NameIndex(attr)) \o U4(Len(Attributes[attr].body)) \o Attributes[attr].body

AttributeInfos(attrs) ==
    U2(Len(attrs)) \o Flatten([i \in DOMAIN attrs |-> AttributeInfo(attrs[i])])

\* The constant pool of every class file: 1 "A", 2 class A, 3 "java/lang/Object",
\* 4 class Object, 5 "f", 6 the descriptor of f, 7 "m", 8 "()V", 9 Integer,
\* 10 "x", 11 "I", 12 class I, 13.. the attribute names.
ConstantPoolInfo(field_descriptor) ==
    U2(13 + Len(AttributeNames))
        \o Utf8Info(<<65>>) \o ClassInfo(1)
        \o Utf8Info(<<106, 97, 118, 97, 47, 108, 97, 110, 103, 47, 79, 98, 106, 101, 99, 116>>)
        \o ClassInfo(3)
        \o Utf8Info(<<102>>) \o Utf8Info(field_descriptor)
        \o Utf8Info(<<109>>) \o Utf8Info(<<40, 41, 86>>)
        \o <<ConstantTag.Integer>> \o U4(7)
        \o Utf8Info(<<120>>)
        \o Utf8Info(<<73>>) \o ClassInfo(11)
        \o Flatten([i \in DOMAIN AttributeNames |-> Utf8Info(Attributes[AttributeNames[i]].name)])

\* The class file of a shape: class A extends Object with one field f, one
\* method m()V, the attributes listed, and the last `cut` bytes missing.
ClassFile(shape) ==
    LET whole ==
            shape.magic \o U2(0) \o U2(shape.major)
                \o ConstantPoolInfo(shape.field_descriptor)
                \o U2(33) \o U2(shape.this_class) \o U2(4)
                \o (IF shape.implements THEN U2(1) \o U2(12) ELSE U2(0))
                \o U2(1) \o U2(shape.field_access) \o U2(5) \o U2(6)
                \o AttributeInfos(shape.field_attrs)
                \o U2(1) \o U2(1) \o U2(7) \o U2(8) \o AttributeInfos(shape.method_attrs)
                \o AttributeInfos(shape.class_attrs)
    IN  SubSeq(whole, 1, Len(whole) - shape.cut)

\* a well-formed class file that javac could have written
BaseShape ==
    [fault |-> "none", magic |-> CLASS_FILE_MAGIC, major |-> 52, this_class |-> 2,
     field_descriptor |-> <<73>>, field_access |-> 2, implements |-> FALSE,
     field_attrs |-> << >>, method_attrs |-> <<"Code">>,
     class_attrs |-> <<"SourceFile">>, cut |-> 0]

RECURSIVE AttrLists(_, _)
AttrLists(pool, n) ==
    IF n = 0 THEN {<< >>}
    ELSE AttrLists(pool, n - 1)
            \cup {l \o <<a>> : l \in AttrLists(pool, n - 1), a \in pool}

\* well-formed class files with other fields and attributes
GoodShapes ==
    {[BaseShape EXCEPT !.class_attrs = c, !.field_attrs = f, !.method_attrs = m] :
        c \in AttrLists({"SourceFile", "Signature", "InnerClasses", "Deprecated",
                         "Synthetic", "NestHost"}, MaxAttrs),
        f \in AttrLists({"ConstantValue", "RuntimeVisibleAnnotations", "NestHost"}, 1),
        m \in {<<"Code">>, << >>, <<"Code", "NestHost">>, <<"Deprecated", "Code">>}}
        \cup {[BaseShape EXCEPT !.field_descriptor = d, !.field_access = a,
                                !.implements = i] :
                d \in {<<73>>, <<74>>, <<91, 73>>, <<76, 97, 59>>}, a \in {2, 10},
                i \in BOOLEAN}

\* class files with one of the failure modes
FaultShapes ==
    {[BaseShape EXCEPT !.fault = "magic", !.magic = m] :
        m \in {<<202, 254, 186, 191>>, <<0, 0, 0, 0>>}}
        \cup {[BaseShape EXCEPT !.fault = "version", !.major = v] : v \in {44, 58}}
        \cup {[BaseShape EXCEPT !.fault = "truncated", !.cut = c] :
                c \in 1..Len(ClassFile(BaseShape))}
        \cup {[BaseShape EXCEPT !.fault = "descriptor", !.field_descriptor = d] :
                d \in {<<81>>, <<91, 86>>, <<76, 97>>, <<40, 41, 86>>}}
        \cup {[BaseShape EXCEPT !.fault = "cp_index", !.this_class = i] :
                i \in {0, 1, 9, 12 + Len(AttributeNames), 13 + Len(AttributeNames), 300}}

InitParse ==
    /\ class_shape \in GoodShapes \cup FaultShapes
    /\ class_bytes = ClassFile(class_shape)
    /\ reader_offset = 0
    /\ parse_result = << >>
    /\ NonParseIdle

\* What a build can do once the parser has read a slot of the constant pool
\* that holds no symbol, or matched on a byte that is no ConstantTag.
UndefinedOutcomes ==
    {[kind |-> "panic"], [kind |-> "crash"], [kind |-> "Ok"]}

\* ClassParser::parse_class on the class file, in a build with or without
\* debug assertions
ParseClass ==
    /\ parse_result = << >>
    /\ \E debug \in BOOLEAN :
        \E r \in {parse_class(class_bytes, debug)} :
            /\ reader_offset' = r.offset
            /\ IF r.kind = "undefined"
               THEN \E o \in UndefinedOutcomes :
                        parse_result' = [kind |-> o.kind, err |-> r.err,
                                         class |-> [unspecified |-> TRUE], debug |-> debug]
               ELSE parse_result' = [kind |-> r.kind, err |-> r.err,
                                     class |-> r.class, debug |-> debug]
    /\ UNCHANGED <<class_bytes, class_shape>>
    /\ UNCHANGED nonParseVars

NextParse == ParseClass

SpecParse == InitParse /\ [][NextParse]_vars

\* ---- the attributes that are to be ignored

\* the attribute names that the parser is to interpret
KnownAttributes ==
    {"Code", "ConstantValue", "Signature", "RuntimeVisibleAnnotations",
     "RuntimeInvisibleAnnotations", "InnerClasses", "EnclosingMethod", "SourceFile",
     "BootstrapMethods"}

RemoveAt(seq, i) == SubSeq(seq, 1, i - 1) \o SubSeq(seq, i + 1, Len(seq))

\* the shapes of the class file without one of its attributes of another name
WithoutUnknown(shape) ==
    UNION {{[shape EXCEPT ![level] = RemoveAt(@, i)] :
                i \in {j \in DOMAIN shape[level] : shape[level][j] \notin KnownAttributes}} :
            level \in {"class_attrs", "field_attrs", "method_attrs"}}

\* C19: a class file with an attribute of a name other than the nine known
\* ones parses to the same class as the file without that attribute, with
\* every byte of the file consumed.
C19_UnknownAttributeIgnored ==
    (parse_result # << >> /\ class_shape.fault = "none") =>
        \A without \in WithoutUnknown(class_shape) :
            LET r == parse_class(ClassFile(without), parse_result.debug)
            IN  r.kind = "Ok" =>
                    /\ parse_result.kind = "Ok"
                    /\ parse_result.class = r.class
                    /\ reader_offset = Len(class_bytes)

\* ---- the failure modes

FailureModes == {"magic", "version", "truncated", "descriptor", "cp_index"}

\* one class file of a failure mode
FaultyShape(fault) == CHOOSE s \in FaultShapes : s.fault = fault

\* the kinds of the errors that parse_class returns for that class file
ErrorKinds(fault) ==
    {r.err.kind : r \in {p \in {parse_class(ClassFile(FaultyShape(fault)), debug) :
                                    debug \in BOOLEAN} : p.kind = "Err"}}

\* C20: a class file with one of the failure modes makes parse_class return
\* a class-load error, and the kind of that error is returned for no other
\* failure mode.
C20_FailureModesDistinct ==
    (parse_result # << >> /\ class_shape.fault \in FailureModes) =>
        /\ parse_result.kind = "Err"
        /\ \A other \in FailureModes \ {class_shape.fault} :
                parse_result.err.kind \notin ErrorKinds(other)

-----------------------------------------------------------------------------
(***************************************************************************)
(* The arithmetic handlers of the interpreter (runtime/interpreter.rs).    *)
(* A JInt or a JLong on the operand stack is its two's complement bits,    *)
(* least significant first; a JFloat or a JDouble is one of a few IEEE-754 *)
(* values.  A behaviour starts where one arithmetic instruction is about   *)
(* to be handled with its two operands on the stack, val2 on top.          *)
(***************************************************************************)

\* 2^k for k up to 30
TwoTo(k) == IF k <= 15 THEN Pow2[k + 1] ELSE Pow2[16] * Pow2[k - 14]

\* size_of::<JInt>() and size_of::<JLong>() in bits
BitsOf(ty) == IF ty = "JInt" THEN 32 ELSE 64

\* the w bits of a number of the i32 range
FromInt(n, w) ==
    [i \in 1..w |-> IF i <= 31 THEN (n \div TwoTo(i - 1)) % 2 ELSE IF n < 0 THEN 1 ELSE 0]

RECURSIVE BitSum(_, _, _)
\* the number the bits lo..hi contribute
BitSum(bits, lo, hi) ==
    IF lo > hi THEN 0
    ELSE IF lo = hi THEN bits[lo] * TwoTo(lo - 1)
    ELSE BitSum(bits, lo, (lo + hi) \div 2) + BitSum(bits, ((lo + hi) \div 2) + 1, hi)

\* the number of the low k bits
LowSum(bits, k) == BitSum(bits, 1, k)

\* the bits stand for a number of the i32 range
Fits32(bits) == \A i \in 32..Len(bits) : bits[i] = bits[32]

\* that number
ToInt(bits) == IF bits[32] = 1 THEN (LowSum(bits, 31) - 2147483647) - 1 ELSE LowSum(bits, 31)

IsNegative(bits) == bits[Len(bits)] = 1

IsZero(bits) == \A i \in DOMAIN bits : bits[i] = 0

\* $val_ty::MIN and -1
MinValue(w) == [i \in 1..w |-> IF i = w THEN 1 ELSE 0]

AllOnes(w) == [i \in 1..w |-> 1]

\* i32::MIN, the one number of the range whose magnitude is outside it
MinInt == (0 - 2147483647) - 1

Abs(n) == IF n < 0 THEN 0 - n ELSE n

\* the quotient of the magnitudes with the sign of a / b
MagDiv(a, b) ==
    IF (a < 0) # (b < 0) THEN 0 - (Abs(a) \div Abs(b)) ELSE Abs(a) \div Abs(b)

\* a / b and a % b of Rust for numbers with b # 0: the quotient is truncated
\* (i32::MIN is divided as (i32::MIN + |b|) and one more b)
TruncDiv(a, b) ==
    CASE b = MinInt -> IF a = MinInt THEN 1 ELSE 0
      [] b # MinInt /\ a = MinInt -> MagDiv(a + Abs(b), b) - (IF b < 0 THEN 0 - 1 ELSE 1)
      [] OTHER -> MagDiv(a, b)

TruncRem(a, b) ==
    CASE b = MinInt -> IF a = MinInt THEN 0 ELSE a
      [] b # MinInt /\ a = MinInt -> (a + Abs(b)) - (b * MagDiv(a + Abs(b), b))
      [] OTHER -> a - (b * MagDiv(a, b))

\* val1 << s, val1 >> s of a signed type, and the same of an unsigned type,
\* for 0 <= s < w
Shl(bits, s) == [i \in DOMAIN bits |-> IF i - s >= 1 THEN bits[i - s] ELSE 0]

Sar(bits, s) ==
    [i \in DOMAIN bits |-> IF i + s <= Len(bits) THEN bits[i + s] ELSE bits[Len(bits)]]

Shr(bits, s) == [i \in DOMAIN bits |-> IF i + s <= Len(bits) THEN bits[i + s] ELSE 0]

\* the carry into bit i of a + b: a lower bit generates it and every bit
\* between passes it on
Carry(a, b, i) ==
    IF \E j \in 1..(i - 1) :
            a[j] + b[j] = 2 /\ \A k \in (j + 1)..(i - 1) : a[k] + b[k] >= 1
    THEN 1 ELSE 0

\* a + b wrapping, and whether it overflows the signed type
WrappingAdd(a, b) == [i \in DOMAIN a |-> (a[i] + b[i] + Carry(a, b, i)) % 2]

AddOverflows(a, b) ==
    LET w == Len(a)
    IN  a[w] = b[w] /\ WrappingAdd(a, b)[w] # a[w]

\* the bits of a shift count below the width w
CountBits(w) == IF w = 32 THEN 5 ELSE 6

\* what a handler does with the operands it popped
Pushes(val) == [kind |-> "push", val |-> val]

Panics(msg) == [kind |-> "panic", msg |-> msg]

\* `val1 << val2` and `val1 >> val2` with val2 a JInt: a panic in a build with
\* overflow checks when val2 is no count below the width, the count masked to
\* the width otherwise
ShiftOp(arith_op, val1, val2, debug) ==
    LET w == Len(val1)
        masked == LowSum(val2, 6) % w
        in_range == \A i \in 1..32 : (i > CountBits(w)) => val2[i] = 0
    IN  IF debug /\ ~in_range
        THEN Panics(IF arith_op = "<<" THEN "attempt to shift left with overflow"
                    ELSE "attempt to shift right with overflow")
        ELSE Pushes(IF arith_op = "<<" THEN Shl(val1, masked) ELSE Sar(val1, masked))

\* `val1 / val2` and `val1 % val2` of JInt and JLong, val2 # 0
DivOp(arith_op, val1, val2) ==
    IF val1 = MinValue(Len(val1)) /\ val2 = AllOnes(Len(val2))
    THEN Panics(IF arith_op = "/" THEN "attempt to divide with overflow"
                ELSE "attempt to calculate the remainder with overflow")
    ELSE Pushes(FromInt(IF arith_op = "/" THEN TruncDiv(ToInt(val1), ToInt(val2))
                        ELSE TruncRem(ToInt(val1), ToInt(val2)), Len(val1)))

\* ---- JFloat and JDouble

FloatValues == {"NaN", "-inf", "-1.0", "-0.0", "0.0", "1.0", "inf"}

FloatNegative(v) == v \in {"-inf", "-1.0", "-0.0"}

FloatMagnitude(v) ==
    CASE v \in {"-inf", "inf"} -> "inf"
      [] v \in {"-1.0", "1.0"} -> "1.0"
      [] v \in {"-0.0", "0.0"} -> "0.0"
      [] OTHER -> "NaN"

FloatOf(negative, magnitude) ==
    IF magnitude = "NaN" THEN "NaN" ELSE IF negative THEN "-" \o magnitude ELSE magnitude

\* val2 == $val_ty::from(0u8) of a float type: -0.0 is equal to 0.0
FloatEqZero(v) == FloatMagnitude(v) = "0.0"

\* val1 / val2 of IEEE 754
FloatDiv(val1, val2) ==
    LET m1 == FloatMagnitude(val1)
        m2 == FloatMagnitude(val2)
        negative == FloatNegative(val1) # FloatNegative(val2)
    IN  CASE m1 = "NaN" \/ m2 = "NaN" -> "NaN"
          [] m1 = m2 /\ m1 \in {"inf", "0.0"} -> "NaN"
          [] m1 = "inf" \/ m2 = "0.0" -> FloatOf(negative, "inf")
          [] m2 = "inf" \/ m1 = "0.0" -> FloatOf(negative, "0.0")
          [] OTHER -> FloatOf(negative, "1.0")

\* val1 % val2 of Rust, the fmod of C
FloatRem(val1, val2) ==
    LET m1 == FloatMagnitude(val1)
        m2 == FloatMagnitude(val2)
    IN  CASE m1 \in {"NaN", "inf"} \/ m2 \in {"NaN", "0.0"} -> "NaN"
          [] m2 = "inf" \/ m1 = "0.0" -> val1
          [] OTHER -> FloatOf(FloatNegative(val1), "0.0")

\* ---- the handlers

\* the instances of case_label_num_arithmetic! for / % << >>:
\* ($op_code, $val_ty, $arith_op, $divide_check)
NumArithmetic ==
    [op \in {JvmInstruction.DDiv, JvmInstruction.DRem, JvmInstruction.FDiv,
             JvmInstruction.FRem, JvmInstruction.IDiv, JvmInstruction.IRem,
             JvmInstruction.IShL, JvmInstruction.IShR, JvmInstruction.LDiv,
             JvmInstruction.LRem} |->
        CASE op = JvmInstruction.DDiv -> <<"JDouble", "/", TRUE>>
          [] op = JvmInstruction.DRem -> <<"JDouble", "%", TRUE>>
          [] op = JvmInstruction.FDiv -> <<"JFloat", "/", TRUE>>
          [] op = JvmInstruction.FRem -> <<"JFloat", "%", TRUE>>
          [] op = JvmInstruction.IDiv -> <<"JInt", "/", TRUE>>
          [] op = JvmInstruction.IRem -> <<"JInt", "%", TRUE>>
          [] op = JvmInstruction.IShL -> <<"JInt", "<<", FALSE>>
          [] op = JvmInstruction.IShR -> <<"JInt", ">>", FALSE>>
          [] op = JvmInstruction.LDiv -> <<"JLong", "/", TRUE>>
          [] op = JvmInstruction.LRem -> <<"JLong", "%", TRUE>>]

\* the instances of case_label_num_diff_types_arithmetic!:
\* ($op_code, $val1_ty, $val2_ty, $arith_op, $divide_check)
NumDiffTypesArithmetic ==
    [op \in {JvmInstruction.LShL, JvmInstruction.LShR} |->
        IF op = JvmInstruction.LShL THEN <<"JLong", "JInt", "<<", FALSE>>
        ELSE <<"JLong", "JInt", ">>", FALSE>>]

IsFloatType(ty) == ty \in {"JFloat", "JDouble"}

\* the body of both macros after the two pops
case_label_num_arithmetic(val_ty, arith_op, divide_check, val1, val2, debug) ==
    IF divide_check /\ (IF IsFloatType(val_ty) THEN FloatEqZero(val2) ELSE IsZero(val2))
    THEN Panics("not yet implemented: throw ArithmeticException")
    ELSE CASE IsFloatType(val_ty) /\ arith_op = "/" -> Pushes(FloatDiv(val1, val2))
           [] IsFloatType(val_ty) /\ arith_op = "%" -> Pushes(FloatRem(val1, val2))
           [] arith_op \in {"/", "%"} -> DivOp(arith_op, val1, val2)
           [] OTHER -> ShiftOp(arith_op, val1, val2, debug)

\* the body of case_label_iushr (mask 0x1f) and case_label_lushr (mask 0x3f)
\* after the two pops: val1 >> (val2 & mask), and for a negative val1
\* (val1 >> (val2 & mask)) + (2 << !(val2 & mask))
case_label_ushr(val1, val2, debug) ==
    LET w == Len(val1)
        count == LowSum(val2, 6) % w        \* val2 & mask
        shifted == Sar(val1, count)
        \* !(val2 & mask) is negative: its low bits are w - 1 - count
        two_shl == Shl(FromInt(2, w), (w - 1) - count)
    IN  IF IsZero(val1) THEN Pushes(FromInt(0, w))
        ELSE IF ~IsNegative(val1) THEN Pushes(shifted)
        ELSE IF debug THEN Panics("attempt to shift left with overflow")
        ELSE Pushes(WrappingAdd(shifted, two_shl))

\* what a handler leaves in the history
Computed(op_code, val1, val2, debug, outcome) ==
    [op_code |-> op_code, val1 |-> val1, val2 |-> val2, debug |-> debug,
     outcome |-> outcome, depth |-> Len(interp_stack)]

\* pops val2 and val1, and pushes the result and dispatches unless the
\* handler panicked
Compute(op_code, outcome(_)) ==
    /\ Len(interp_stack) >= 2
    /\ \E debug \in BOOLEAN :
        \E r \in {outcome(debug)} :
            /\ interp_last' = Computed(op_code, interp_stack[2], interp_stack[1], debug, r)
            /\ IF r.kind = "push"
               THEN /\ interp_stack' = <<r.val>> \o SubSeq(interp_stack, 3, Len(interp_stack))
                    /\ interp_pc' = dispatch(interp_pc)
               ELSE /\ interp_stack' = SubSeq(interp_stack, 3, Len(interp_stack))
                    /\ interp_pc' = 0
    /\ UNCHANGED <<method_code, interp_heap>>
    /\ UNCHANGED nonInterpVars

\* case_label_num_arithmetic! for idiv, irem, ldiv, lrem, fdiv, frem, ddiv,
\* drem, ishl and ishr
ExecNumArithmetic ==
    /\ CurrentOp \in DOMAIN NumArithmetic
    /\ Compute(CurrentOp,
               LAMBDA debug :
                   case_label_num_arithmetic(NumArithmetic[CurrentOp][1],
                                             NumArithmetic[CurrentOp][2],
                                             NumArithmetic[CurrentOp][3],
                                             interp_stack[2], interp_stack[1], debug))

\* case_label_num_diff_types_arithmetic! for lshl and lshr
ExecNumDiffTypesArithmetic ==
    /\ CurrentOp \in DOMAIN NumDiffTypesArithmetic
    /\ Compute(CurrentOp,
               LAMBDA debug :
                   case_label_num_arithmetic(NumDiffTypesArithmetic[CurrentOp][1],
                                             NumDiffTypesArithmetic[CurrentOp][3],
                                             NumDiffTypesArithmetic[CurrentOp][4],
                                             interp_stack[2], interp_stack[1], debug))

\* case_label_iushr and case_label_lushr
ExecUShr ==
    /\ CurrentOp \in {JvmInstruction.IUShR, JvmInstruction.LUShR}
    /\ Compute(CurrentOp,
               LAMBDA debug : case_label_ushr(interp_stack[2], interp_stack[1], debug))

\* ---- the instructions the handlers are started on

\* the numbers whose bits are the JInt and JLong operands
IntOperands == {MinInt, 0 - 7, 0 - 1, 0, 1, 2, 7, 2147483647}

\* the shift counts
ShiftCounts == {MinInt, 0 - 1, 0, 1, 31, 32, 33, 63, 64, 65}

\* JLong operands outside the i32 range: i64::MIN, i64::MAX, 1 << 32
LongOperands ==
    {MinValue(64), [i \in 1..64 |-> IF i = 64 THEN 0 ELSE 1],
     [i \in 1..64 |-> IF i = 33 THEN 1 ELSE 0]}

DivOps ==
    {JvmInstruction.IDiv, JvmInstruction.IRem, JvmInstruction.LDiv, JvmInstruction.LRem}

FloatDivOps ==
    {JvmInstruction.FDiv, JvmInstruction.FRem, JvmInstruction.DDiv, JvmInstruction.DRem}

IntShiftOps == {JvmInstruction.IShL, JvmInstruction.IShR, JvmInstruction.IUShR}

LongShiftOps == {JvmInstruction.LShL, JvmInstruction.LShR, JvmInstruction.LUShR}

\* the width of the first operand of an instruction
OperandBits(op) ==
    IF op \in {JvmInstruction.IDiv, JvmInstruction.IRem} \cup IntShiftOps THEN 32 ELSE 64

\* the operands of a division whose result is of the i32 range
DivOperands(op) ==
    {p \in IntOperands \X IntOperands :
        ~(op = JvmInstruction.LDiv /\ p[1] = MinInt /\ p[2] = 0 - 1)}

\* the instruction with val1 and val2 on the stack, val2 on top, over one
\* more slot of the caller
ArithStarts ==
    UNION {{[op |-> op,
             stack |-> <<FromInt(p[2], OperandBits(op)), FromInt(p[1], OperandBits(op)), 0>>] :
                p \in DivOperands(op)} : op \in DivOps}
        \cup {[op |-> op, stack |-> <<FromInt(b, 64), MinValue(64), 0>>] :
                op \in {JvmInstruction.LDiv, JvmInstruction.LRem}, b \in {0 - 1, 0}}
        \cup {[op |-> op, stack |-> <<b, a, 0>>] :
                op \in FloatDivOps, a \in FloatValues, b \in FloatValues}
        \cup {[op |-> op, stack |-> <<FromInt(n, 32), FromInt(a, OperandBits(op)), 0>>] :
                op \in IntShiftOps \cup LongShiftOps, a \in IntOperands, n \in ShiftCounts}
        \cup {[op |-> op, stack |-> <<FromInt(n, 32), a, 0>>] :
                op \in LongShiftOps, a \in LongOperands, n \in ShiftCounts}

InitArith ==
    /\ \E s \in ArithStarts :
          /\ method_code = <<s.op, JvmInstruction.Return>>
          /\ interp_stack = s.stack
    /\ interp_pc = dispatch(0)
    /\ interp_heap = << >>
    /\ interp_last = << >>
    /\ NonInterpIdle

NextArith ==
    \/ ExecNumArithmetic
    \/ ExecNumDiffTypesArithmetic
    \/ ExecUShr
    \/ ExecReturn

SpecArith == InitArith /\ [][NextArith]_vars

\* ---- integer division by zero

\* C21: idiv, irem, ldiv and lrem with a zero divisor throw
\* ArithmeticException, a Java throwable handed to the exception handling of
\* the interpreter, and push no result.
C21_DivideByZeroThrows ==
    (interp_last # << >> /\ interp_last.op_code \in DivOps /\ IsZero(interp_last.val2)) =>
        /\ interp_last.outcome.kind = "throw"
        /\ interp_last.outcome.class = "java/lang/ArithmeticException"
        /\ Len(interp_stack) = interp_last.depth - 2

\* ---- float division by zero

\* C22: fdiv and ddiv with a zero divisor complete normally and push an
\* infinity or NaN; they neither raise ArithmeticException nor abort.
C22_FloatDivideByZero ==
    (/\ interp_last # << >>
     /\ interp_last.op_code \in {JvmInstruction.FDiv, JvmInstruction.DDiv}
     /\ FloatMagnitude(interp_last.val2) = "0.0") =>
        /\ interp_last.outcome.kind = "push"
        /\ interp_last.outcome.val \in {"inf", "-inf", "NaN"}
        /\ Len(interp_stack) = interp_last.depth - 1

\* ---- shifts

\* n & 0x1f and n & 0x3f of a shift count
MaskedCount(val2, w) == LowSum(val2, CountBits(w))

\* the result of the shift instruction of the JVM specification
JavaShift(op_code, val1, val2) ==
    LET s == MaskedCount(val2, Len(val1))
    IN  CASE op_code \in {JvmInstruction.IShL, JvmInstruction.LShL} -> Shl(val1, s)
          [] op_code \in {JvmInstruction.IShR, JvmInstruction.LShR} -> Sar(val1, s)
          [] OTHER -> Shr(val1, s)

-----------------------------------------------------------------------------
(***************************************************************************)
(* aastore (runtime/interpreter.rs, case_label_array_store! in its         *)
(* ObjectRawPtr form) with JArray::is_compatible (object/array.rs) and     *)
(* JClass::is_assignable_from (object/class.rs).  A reference is the       *)
(* position of its object in interp_heap, null is 0.                       *)
(***************************************************************************)

\* vm.preloaded_classes().jobject_cls()
jobject_cls == "java/lang/Object"

\* the ClassData of the classes the objects belong to: super_class ("" is
\* null), the interface flag, is_array, component_type and the interfaces of
\* the vtable
ClassData(super_class, interface, array, component_type, ifaces) ==
    [super_class |-> super_class, is_interface |-> interface, is_array |-> array,
     component_type |-> component_type, ifaces |-> ifaces]

ArrayClassOf(component_type) ==
    ClassData(jobject_cls, FALSE, TRUE, component_type, << >>)

StoreClasses ==
    [c \in {jobject_cls, "java/lang/Comparable", "java/lang/Number", "java/lang/Integer",
            "java/lang/String", "[Ljava/lang/Object;", "[Ljava/lang/Comparable;",
            "[Ljava/lang/Number;", "[Ljava/lang/String;", "[[Ljava/lang/Object;"} |->
        CASE c = jobject_cls -> ClassData("", FALSE, FALSE, "", << >>)
          [] c = "java/lang/Comparable" -> ClassData(jobject_cls, TRUE, FALSE, "", << >>)
          [] c = "java/lang/Number" -> ClassData(jobject_cls, FALSE, FALSE, "", << >>)
          [] c = "java/lang/Integer" ->
                ClassData("java/lang/Number", FALSE, FALSE, "", <<"java/lang/Comparable">>)
          [] c = "java/lang/String" ->
                ClassData(jobject_cls, FALSE, FALSE, "", <<"java/lang/Comparable">>)
          [] c = "[Ljava/lang/Object;" -> ArrayClassOf(jobject_cls)
          [] c = "[Ljava/lang/Comparable;" -> ArrayClassOf("java/lang/Comparable")
          [] c = "[Ljava/lang/Number;" -> ArrayClassOf("java/lang/Number")
          [] c = "[Ljava/lang/String;" -> ArrayClassOf("java/lang/String")
          [] c = "[[Ljava/lang/Object;" -> ArrayClassOf("[Ljava/lang/Object;")]

RECURSIVE class_data_is_implement(_, _)
\* ClassData::is_implement: an interface of the vtable of the class or of a
\* superclass is other
class_data_is_implement(curr, other) ==
    IF \E idx \in DOMAIN StoreClasses[curr].ifaces : StoreClasses[curr].ifaces[idx] = other
    THEN TRUE
    ELSE IF StoreClasses[curr].super_class # ""
         THEN class_data_is_implement(StoreClasses[curr].super_class, other)
         ELSE FALSE

\* JClass::is_implement
is_implement(self, other) ==
    IF other = "" THEN FALSE ELSE class_data_is_implement(self, other)

RECURSIVE super_class_is(_, _)
\* the loop of is_assignable_from over the superclasses of target
super_class_is(target_super_class, self_cls) ==
    IF target_super_class = "" THEN FALSE
    ELSE IF target_super_class = self_cls THEN TRUE
    ELSE super_class_is(StoreClasses[target_super_class].super_class, self_cls)

\* JClass::is_assignable_from
is_assignable_from(self_cls, target) ==
    IF self_cls = target THEN TRUE
    ELSE IF StoreClasses[target].is_interface
         THEN IF self_cls = jobject_cls THEN TRUE ELSE is_implement(target, self_cls)
    ELSE IF StoreClasses[target].is_array THEN self_cls = jobject_cls
    ELSE IF StoreClasses[self_cls].is_interface THEN is_implement(target, self_cls)
    ELSE super_class_is(StoreClasses[target].super_class, self_cls)

\* JArray::is_compatible; no class of StoreClasses is primitive
is_compatible(heap, arr_ref, val) ==
    IF val = 0 THEN TRUE
    ELSE is_assignable_from(StoreClasses[heap[arr_ref].jclass].component_type,
                            heap[val].jclass)

\* the length of the arrays of the heap
StoreArrayLen == 2

\* an object and an array of length StoreArrayLen with null elements
NewObject(jclass) == [jclass |-> jclass]

NewRefArray(jclass) ==
    [jclass |-> jclass, length |-> StoreArrayLen, data |-> [i \in 1..StoreArrayLen |-> 0]]

\* the heap aastore is started on
StoreHeap ==
    << NewObject(jobject_cls), NewObject("java/lang/String"), NewObject("java/lang/Integer"),
       NewRefArray("[Ljava/lang/Object;"), NewRefArray("[Ljava/lang/Comparable;"),
       NewRefArray("[Ljava/lang/Number;"), NewRefArray("[Ljava/lang/String;"),
       NewRefArray("[[Ljava/lang/Object;") >>

IsArrayRef(heap, ref) == ref # 0 /\ StoreClasses[heap[ref].jclass].is_array

\* JArray::set: the element index of the data
array_set(heap, arr_ref, index, val) ==
    [heap EXCEPT ![arr_ref].data[index + 1] = val]

\* the body of aastore after the three pops: what it does and the heaps it
\* can leave.  A negative index passes `index >= arr_ref.length()` and the
\* debug_assert of JArray::set, and the element is written in front of the
\* data, over the length of the array.
array_store(heap, val, index, arr_ref) ==
    IF arr_ref = 0
    THEN [outcome |-> Panics("not yet implemented: throw NullPointerException"),
          heaps |-> {heap}]
    ELSE IF index >= heap[arr_ref].length
    THEN [outcome |-> Panics("not yet implemented: throw ArrayIndexOutOfBoundsException"),
          heaps |-> {heap}]
    ELSE IF ~is_compatible(heap, arr_ref, val)
    THEN [outcome |-> Panics("not yet implemented: throw ArrayStoreException"),
          heaps |-> {heap}]
    ELSE IF index < 0
    THEN [outcome |-> [kind |-> "undefined"],
          heaps |-> {heap} \cup {[heap EXCEPT ![arr_ref].length = n] : n \in {0, val}}]
    ELSE [outcome |-> [kind |-> "store"], heaps |-> {array_set(heap, arr_ref, index, val)}]

\* JArray::get_raw: the element index of the data
array_get(heap, arr_ref, index) == heap[arr_ref].data[index + 1]

\* the body of aaload after the two pops: what it does and the values it can
\* push.  A negative index passes `index >= arr_ref.length()` and the
\* debug_assert of JArray::get_raw, and the word in front of the data is read,
\* where the length and the header of the array are.
array_load(heap, index, arr_ref) ==
    IF arr_ref = 0
    THEN [outcome |-> Panics("not yet implemented: throw NullPointerException"),
          pushed |-> { << >> }]
    ELSE IF index >= heap[arr_ref].length
    THEN [outcome |-> Panics("not yet implemented: ArrayIndexOutOfBoundsException"),
          pushed |-> { << >> }]
    ELSE IF index < 0
    THEN [outcome |-> [kind |-> "undefined"],
          pushed |-> { << n >> : n \in { 0, heap[arr_ref].length } }]
    ELSE [outcome |-> [kind |-> "load"], pushed |-> { << array_get(heap, arr_ref, index) >> }]

\* case_label_array_load!(aaload, JArrayPtr, ObjectRawPtr)
ExecArrayLoad ==
    /\ CurrentOp = JvmInstruction.AALoad
    /\ Len(interp_stack) >= 2
    /\ \E r \in {array_load(interp_heap, interp_stack[1], interp_stack[2])} :
          /\ interp_last' = [op_code |-> CurrentOp, val |-> 0,
                             index |-> interp_stack[1], arr_ref |-> interp_stack[2],
                             heap |-> interp_heap, outcome |-> r.outcome,
                             depth |-> Len(interp_stack)]
          /\ \E top \in r.pushed :
                interp_stack' = top \o SubSeq(interp_stack, 3, Len(interp_stack))
          /\ interp_pc' = IF r.outcome.kind = "panic" THEN 0 ELSE dispatch(interp_pc)
    /\ UNCHANGED << method_code, interp_heap >>
    /\ UNCHANGED nonInterpVars

\* case_label_array_store!(aastore, JArrayPtr, ObjectRawPtr)
ExecArrayStore ==
    /\ CurrentOp = JvmInstruction.AAStore
    /\ Len(interp_stack) >= 3
    /\ \E r \in {array_store(interp_heap, interp_stack[1], interp_stack[2], interp_stack[3])} :
          /\ interp_last' = [op_code |-> CurrentOp, val |-> interp_stack[1],
                             index |-> interp_stack[2], arr_ref |-> interp_stack[3],
                             heap |-> interp_heap, outcome |-> r.outcome,
                             depth |-> Len(interp_stack)]
          /\ interp_heap' \in r.heaps
          /\ interp_pc' = IF r.outcome.kind = "panic" THEN 0 ELSE dispatch(interp_pc)
    /\ interp_stack' = SubSeq(interp_stack, 4, Len(interp_stack))
    /\ UNCHANGED method_code
    /\ UNCHANGED nonInterpVars

\* aastore with val, index and arr_ref on the stack, val on top, or aaload
\* with index and arr_ref on the stack
InitStore ==
    /\ interp_pc = dispatch(0)
    /\ interp_heap = StoreHeap
    /\ \E val \in 0..Len(StoreHeap), index \in (0 - 1)..StoreArrayLen,
          arr_ref \in {0} \cup {ref \in DOMAIN StoreHeap : IsArrayRef(StoreHeap, ref)} :
            \/ /\ method_code = <<JvmInstruction.AAStore, JvmInstruction.Return>>
               /\ interp_stack = <<val, index, arr_ref>>
            \/ /\ method_code = <<JvmInstruction.AALoad, JvmInstruction.Return>>
               /\ val = 0
               /\ interp_stack = <<index, arr_ref>>
    /\ interp_last = << >>
    /\ NonInterpIdle

NextStore ==
    \/ ExecArrayStore
    \/ ExecArrayLoad
    \/ ExecReturn

SpecStore == InitStore /\ [][NextStore]_vars

\* aastore has handled a non-null reference for an element of a non-null array
StoredNonNull ==
    /\ interp_last # << >>
    /\ interp_last.arr_ref # 0
    /\ interp_last.val # 0
    /\ interp_last.index \in 0..(interp_last.heap[interp_last.arr_ref].length - 1)

\* C24: aastore of a non-null reference whose class is not assignable to the
\* component type of the array throws ArrayStoreException and leaves the
\* array unchanged (an Object into a String[2]); a reference of an
\* assignable class is stored (a String into an Object[2]).
C24_ArrayStoreCheck ==
    StoredNonNull =>
        IF is_compatible(interp_last.heap, interp_last.arr_ref, interp_last.val)
        THEN /\ interp_last.outcome.kind = "store"
             /\ interp_heap = array_set(interp_last.heap, interp_last.arr_ref,
                                        interp_last.index, interp_last.val)
        ELSE /\ interp_last.outcome.kind = "throw"
             /\ interp_last.outcome.class = "java/lang/ArrayStoreException"
             /\ interp_heap = interp_last.heap

-----------------------------------------------------------------------------
(***************************************************************************)
(* Call frames (runtime/stack.rs, runtime/frame.rs) and the calls and      *)
(* returns of the interpreter (runtime/interpreter.rs).  The stack is an   *)
(* array of machine words that grows towards lower addresses; an int, a    *)
(* reference and a code address are all one word.  A method of the model   *)
(* pushes constants, invokes methods and returns; a native method is       *)
(* foreign code that may call back into the interpreter before it returns. *)
(***************************************************************************)

\* the words of the code space up to the end of the thread's stack, and the
\* address after the last: Stack::stack_base
StackSlots == 30

stack_base == StackSlots + 1

\* the frames alive at a time
MaxFrames == 3

\* the words a method has on its operand stack at most
MaxOperands == 3

\* the calls one activation of a method makes at most
MaxCalls == 1

\* the methods: params and ret_type are "I" (int), "J" (long), "L"
\* (reference) and "V"
FrameMethod(name, is_static, is_native, max_locals, params, ret_type) ==
    [name |-> name, is_static |-> is_static, is_native |-> is_native,
     max_locals |-> max_locals, params |-> params, ret_type |-> ret_type]

FrameMethods ==
    << FrameMethod("f", TRUE, FALSE, 2, <<"I">>, "I"),
       FrameMethod("g", FALSE, FALSE, 3, <<"J">>, "J"),
       FrameMethod("v", TRUE, FALSE, 0, << >>, "V"),
       FrameMethod("n", TRUE, TRUE, 0, <<"I">>, "I"),
       FrameMethod("m", FALSE, TRUE, 0, << >>, "L") >>

\* Method::code: the address of the first instruction of method number m
method_code_address(m) == 1000 * m

\* the pc of an interpreter that is executing what is no bytecode
LostPc == 0 - 1

\* the values of each type that methods push and natives return
ValuesOf(ty) ==
    CASE ty = "I" -> {7, 8}
      [] ty = "J" -> {9}
      [] ty = "L" -> {100}
      [] OTHER -> {0}

\* Stack::calc_slots
calc_slots(ty) == IF ty = "J" THEN 2 ELSE 1

RECURSIVE SlotsOf(_)
SlotsOf(types) == IF types = << >> THEN 0 ELSE calc_slots(Head(types)) + SlotsOf(Tail(types))

\* Interpreter::compute_args_slots
compute_args_slots(method) == SlotsOf(method.params)

\* the types a caller pushes for a call, in the order it pushes them
ArgTypes(method) == (IF method.is_static THEN << >> ELSE <<"L">>) \o method.params

IsPrefixOf(s, t) == Len(s) <= Len(t) /\ SubSeq(t, 1, Len(s)) = s

IsSuffixOf(s, t) == Len(s) <= Len(t) /\ SubSeq(t, Len(t) - Len(s) + 1, Len(t)) = s

\* the Stack as a value
StackOf(mem, sp, bp, frame) == [mem |-> mem, sp |-> sp, bp |-> bp, frame |-> frame]

TheStack == StackOf(stack_mem, stack_sp, stack_bp, stack_frame)

\* Stack::push::<T> and Stack::push_jobj: a long is written into the lower of
\* its two words
stack_push(s, ty, val) ==
    [s EXCEPT !.sp = s.sp - calc_slots(ty), !.mem[s.sp - calc_slots(ty)] = val]

\* Stack::pop::<T> and Stack::pop_jobj: the value, and the stack after it
stack_peek(s) == s.mem[s.sp]

stack_pop(s, ty) == [s EXCEPT !.sp = s.sp + calc_slots(ty)]

\* Stack::store_jobj and Stack::load_jobj_raw
store_jobj(s, jobj, index) == [s EXCEPT !.mem[s.bp - (index + 1)] = jobj]

load_jobj_raw(s, index) == s.mem[s.bp - (index + 1)]

\* Frame::new, with what the frame was built with
CallFrame(method, frame_slots, is_java_top, saved) ==
    [method |-> method, frame_slots |-> frame_slots, is_java_top |-> is_java_top,
     operands |-> << >>, calls |-> 0, saved |-> saved]

\* Stack::new_call_frame (a method with code, locals == max_locals) and
\* Stack::new_native_call_frame (a native method, locals == args_slots)
build_call_frame(s, m, locals, args_slots, pc, is_java_top) ==
    store_jobj(
        store_jobj(
            store_jobj(
                StackOf(s.mem, (s.sp + args_slots) - (locals + 3), s.sp + args_slots,
                        <<CallFrame(m, locals, is_java_top,
                                [prev_sp |-> s.sp + args_slots, prev_bp |-> s.bp,
                                 prev_pc |-> pc])>> \o s.frame),
                s.sp + args_slots, locals),
            s.bp, locals + 1),
        pc, locals + 2)

new_call_frame(s, m, args_slots, pc, is_java_top) ==
    build_call_frame(s, m, FrameMethods[m].max_locals, args_slots, pc, is_java_top)

new_native_call_frame(s, m, args_slots, pc, is_java_top) ==
    build_call_frame(s, m, args_slots, args_slots, pc, is_java_top)

\* Stack::ret_call_frame: the stack after it and the pc it sets
ret_call_frame(s) ==
    [stack |-> StackOf(s.mem, load_jobj_raw(s, Head(s.frame).frame_slots),
                       load_jobj_raw(s, Head(s.frame).frame_slots + 1), Tail(s.frame)),
     pc |-> load_jobj_raw(s, Head(s.frame).frame_slots + 2)]

\* the frame stack with the operand types of the current frame replaced
WithOperands(s, operands) ==
    IF s.frame = << >> THEN s
    ELSE [s EXCEPT !.frame = <<[Head(s.frame) EXCEPT !.operands = operands]>> \o Tail(s.frame)]

Operands(s) == IF s.frame = << >> THEN << >> ELSE Head(s.frame).operands

\* the frame stack with one more call counted for the current frame
Calling(s) ==
    IF s.frame = << >> THEN s
    ELSE [s EXCEPT !.frame = <<[Head(s.frame) EXCEPT !.calls = @ + 1]>> \o Tail(s.frame)]

\* the embedding program makes one call, an activation at most MaxCalls
MayCall ==
    IF stack_frame = << >> THEN stack_last = << >> ELSE Head(stack_frame).calls < MaxCalls

RECURSIVE push_all(_, _, _)
\* Interpreter::prepare_args: the reference and the arguments, pushed in order
push_all(s, types, vals) ==
    IF types = << >> THEN s
    ELSE push_all(stack_push(s, Head(types), Head(vals)), Tail(types), Tail(vals))

\* the argument values for a list of types
RECURSIVE ArgValues(_)
ArgValues(types) ==
    IF types = << >> THEN {<< >>}
    ELSE {<<v>> \o rest : v \in ValuesOf(Head(types)), rest \in ArgValues(Tail(types))}

\* Interpreter::invoke_method up to the call of the native function: the
\* frame of the callee, for a method with code and for a native one
invoke_method(s, m, args_slots, prev_pc, is_java_top) ==
    IF ~FrameMethods[m].is_native
    THEN new_call_frame(s, m, args_slots, prev_pc, is_java_top)
    ELSE new_native_call_frame(s, m, args_slots, prev_pc, is_java_top)

InJava == stack_frame # << >> /\ ~FrameMethods[Head(stack_frame).method].is_native

InNative == stack_frame # << >> /\ FrameMethods[Head(stack_frame).method].is_native

Interpreting == stack_pc # LostPc

SetStack(s) ==
    /\ stack_mem' = s.mem
    /\ stack_sp' = s.sp
    /\ stack_bp' = s.bp
    /\ stack_frame' = s.frame

\* what a pushing instruction may leave on the operand stack of a method of
\* the model: the beginning of the arguments of a call, or the value to return
Pushable(operands) ==
    /\ SlotsOf(operands) <= MaxOperands
    /\ \/ \E m \in DOMAIN FrameMethods : IsPrefixOf(operands, ArgTypes(FrameMethods[m]))
       \/ operands = <<FrameMethods[Head(stack_frame).method].ret_type>>

\* iconst, lconst and aload: Stack::push::<JInt>, push::<JLong>, push_jobj
ExecPush ==
    /\ Interpreting /\ InJava
    /\ \E ty \in {"I", "J", "L"} :
        /\ Pushable(Append(Operands(TheStack), ty))
        /\ \E val \in ValuesOf(ty) :
              SetStack(WithOperands(stack_push(TheStack, ty, val),
                                    Append(Operands(TheStack), ty)))
    /\ stack_pc' = stack_pc + 1
    /\ UNCHANGED stack_last
    /\ UNCHANGED nonFrameVars

\* the operand types of the caller once the arguments are the callee's
WithoutArgs(operands, method) ==
    SubSeq(operands, 1, Len(operands) - Len(ArgTypes(method)))

\* invokestatic and invokevirtual from the resolved method on: the pc after
\* the two operand bytes is saved, is_java_top is false
ExecInvoke ==
    /\ Interpreting /\ InJava
    /\ Len(stack_frame) < MaxFrames /\ MayCall
    /\ \E m \in DOMAIN FrameMethods :
        /\ IsSuffixOf(ArgTypes(FrameMethods[m]), Operands(TheStack))
        /\ SetStack(invoke_method(
                WithOperands(Calling(TheStack),
                             WithoutArgs(Operands(TheStack), FrameMethods[m])),
                m,
                (IF FrameMethods[m].is_static THEN 0 ELSE 1)
                    + compute_args_slots(FrameMethods[m]),
                stack_pc + 3, FALSE))
        /\ stack_pc' = method_code_address(m)
    /\ UNCHANGED stack_last
    /\ UNCHANGED nonFrameVars

\* Interpreter::call_static_method, call_obj_method and call_obj_void_method
\* up to execute or the call of the native function: from the embedding
\* program or from a native function, is_java_top is true
CallMethod ==
    /\ Interpreting
    /\ stack_frame = << >> \/ InNative
    /\ Len(stack_frame) < MaxFrames /\ MayCall
    /\ \E m \in DOMAIN FrameMethods :
        \E args \in ArgValues(ArgTypes(FrameMethods[m])) :
            /\ SetStack(invoke_method(
                    push_all(Calling(TheStack), ArgTypes(FrameMethods[m]), args), m,
                    SlotsOf(ArgTypes(FrameMethods[m])), stack_pc, TRUE))
            /\ stack_pc' = method_code_address(m)
    /\ UNCHANGED stack_last
    /\ UNCHANGED nonFrameVars

\* what a return leaves in the history
Returned(frame, ret_type, ret_val, restored, after, exit) ==
    [method |-> frame.method, is_java_top |-> frame.is_java_top, saved |-> frame.saved,
     ret_type |-> ret_type, ret_val |-> ret_val,
     sp |-> restored.stack.sp, bp |-> restored.stack.bp, pc |-> restored.pc,
     top |-> IF after.sp = restored.stack.sp THEN << >> ELSE <<after.sp, after.mem[after.sp]>>,
     exit |-> exit]

\* the stack of the caller with the returned value pushed
push_returned(s, ret_type, ret_val) ==
    IF ret_type = "V" THEN s
    ELSE WithOperands(stack_push(s, ret_type, ret_val), Append(Operands(s), ret_type))

\* ireturn, lreturn, areturn and return: pop the value, restore_invoker_frame,
\* and leave execute with the value from the Java-top frame or push it
DoReturn(ret_type, ret_val, popped) ==
    /\ stack_last' = Returned(Head(stack_frame), ret_type, ret_val, ret_call_frame(popped),
                              IF Head(stack_frame).is_java_top
                              THEN ret_call_frame(popped).stack
                              ELSE push_returned(ret_call_frame(popped).stack,
                                                 ret_type, ret_val),
                              IF Head(stack_frame).is_java_top
                              THEN [kind |-> "value", val |-> ret_val]
                              ELSE [kind |-> "none"])
    /\ SetStack(IF Head(stack_frame).is_java_top THEN ret_call_frame(popped).stack
                ELSE push_returned(ret_call_frame(popped).stack, ret_type, ret_val))
    /\ stack_pc' = ret_call_frame(popped).pc

ExecReturnValue ==
    /\ Interpreting /\ InJava
    /\ Operands(TheStack) = <<FrameMethods[Head(stack_frame).method].ret_type>>
    /\ DoReturn(FrameMethods[Head(stack_frame).method].ret_type, stack_peek(TheStack),
                stack_pop(TheStack, FrameMethods[Head(stack_frame).method].ret_type))
    /\ UNCHANGED nonFrameVars

ExecReturnVoid ==
    /\ Interpreting /\ InJava
    /\ FrameMethods[Head(stack_frame).method].ret_type = "V"
    /\ DoReturn("V", 0, TheStack)
    /\ UNCHANGED nonFrameVars

\* Interpreter::invoke_method from the return of the native function on:
\* restore_invoker_frame and the push of the value.  An invoke handler then
\* dispatches at the restored pc; call_static_method and call_obj_method set
\* pc to Method::code of the native method, which has no code, and execute.
NativeReturn ==
    /\ Interpreting /\ InNative
    /\ \E ret_val \in ValuesOf(FrameMethods[Head(stack_frame).method].ret_type) :
        \E exit \in IF Head(stack_frame).is_java_top
                    THEN {[kind |-> "abort"]}
                         \cup {[kind |-> "value", val |-> v] :
                                 v \in {0} \cup ValuesOf(FrameMethods[Head(stack_frame).method].ret_type)}
                    ELSE {[kind |-> "none"]} :
            /\ stack_last' =
                  Returned(Head(stack_frame), FrameMethods[Head(stack_frame).method].ret_type,
                           ret_val, ret_call_frame(TheStack),
                           push_returned(ret_call_frame(TheStack).stack,
                                         FrameMethods[Head(stack_frame).method].ret_type,
                                         ret_val),
                           exit)
            /\ SetStack(push_returned(ret_call_frame(TheStack).stack,
                                      FrameMethods[Head(stack_frame).method].ret_type, ret_val))
    /\ stack_pc' = IF Head(stack_frame).is_java_top THEN LostPc
                   ELSE ret_call_frame(TheStack).pc
    /\ UNCHANGED nonFrameVars

\* Stack::new and Interpreter::new
InitFrame ==
    /\ stack_mem = [a \in 1..StackSlots |-> 0]
    /\ stack_sp = stack_base
    /\ stack_bp = stack_base
    /\ stack_pc = 0
    /\ stack_frame = << >>
    /\ stack_last = << >>
    /\ NonFrameIdle

NextFrame ==
    \/ ExecPush
    \/ ExecInvoke
    \/ CallMethod
    \/ ExecReturnValue
    \/ ExecReturnVoid
    \/ NativeReturn

SpecFrame == InitFrame /\ [][NextFrame]_vars

\* C25: for every call and its return, at any depth, of a static or an
\* instance method, with code or native: after the return sp, bp and pc are
\* the prev_sp, prev_bp and prev_pc saved when the frame was built, a returned
\* value is the new top of the operand stack of the caller, and the
\* interpreter is left with that value when the frame was the Java-top frame.
C25_ReturnRestoresCaller ==
    stack_last # << >> =>
        /\ stack_last.sp = stack_last.saved.prev_sp
        /\ stack_last.bp = stack_last.saved.prev_bp
        /\ stack_last.pc = stack_last.saved.prev_pc
        /\ IF stack_last.is_java_top
           THEN stack_last.exit = [kind |-> "value", val |-> stack_last.ret_val]
           ELSE stack_last.ret_type # "V" =>
                    stack_last.top
                        = <<stack_last.saved.prev_sp - calc_slots(stack_last.ret_type),
                            stack_last.ret_val>>

-----------------------------------------------------------------------------
(***************************************************************************)
(* Handle scopes (handle.rs).  A RawHandle points at a slot of a chunk:    *)
(* the chunk and the index of the slot, the null pointer is chunk 0.       *)
(* Scopes are Rust values and the scope of a Frame, dropped in the reverse *)
(* order of their creation.                                                *)
(***************************************************************************)

\* the slots of a chunk (HANDLES_SIZE, 1024 in handle.rs)
ChunkHandles == 2

\* the chunks alive at a time, and the scopes
MaxChunks == 2

MaxScopes == 2

RawHandle(chunk, idx) == [chunk |-> chunk, idx |-> idx]

null_mut == RawHandle(0, 0)

\* HandleArea::new and HandleData::new
HandleArea(offset, limit, chunks) == [offset |-> offset, limit |-> limit, chunks |-> chunks]

HandleData(area, handles) == [area |-> area, raw_handles |-> handles]

TheHandleData == HandleData(handle_area, raw_handles)

\* HandleData::new_area without the assignment
new_area_keeping_chunks(data) == data

\* HandleData::new_area
new_area(data) == [data EXCEPT !.area.chunks = 0]

\* HandleArea::available and HandleArea::reserve
available(area) == area.offset # area.limit

reserve(area, size) == [area EXCEPT !.offset.idx = @ + size]

\* HandleScope::make_handle with the chunk alloc_handles returns: the handle
\* data after it (the handle is the offset before the reserve)
make_handle(data, new_handle) ==
    IF ~available(data.area)
    THEN HandleData(reserve(HandleArea(RawHandle(new_handle, 0),
                                       RawHandle(new_handle, ChunkHandles),
                                       data.area.chunks + 1), 1),
                    Append(data.raw_handles, new_handle))
    ELSE HandleData(reserve(data.area, 1), data.raw_handles)

\* Drop for HandleScope: raw_handles.pop() area.chunks times (pop of an empty
\* Vec does nothing), then the area of the scope
drop_scope(data, scope) ==
    HandleData(scope.prev,
               SubSeq(data.raw_handles, 1,
                      IF data.area.chunks >= Len(data.raw_handles) THEN 0
                      ELSE Len(data.raw_handles) - data.area.chunks))

\* HandleScope::new: the scope keeps the area; entry is what the thread's
\* handle data was at that time
NewScope ==
    /\ Len(handle_scopes) < MaxScopes
    /\ handle_scopes' = <<[prev |-> handle_area, entry |-> TheHandleData]>> \o handle_scopes
    /\ handle_area' = new_area(TheHandleData).area
    /\ raw_handles' = new_area(TheHandleData).raw_handles
    /\ UNCHANGED handle_last
    /\ UNCHANGED nonHandleVars

\* Handle::new: alloc_handles returns a chunk that is not alive
MakeHandle ==
    /\ available(handle_area) \/ Len(raw_handles) < MaxChunks
    /\ \E new_handle \in (1..MaxChunks) \ {raw_handles[i] : i \in DOMAIN raw_handles} :
          /\ handle_area' = make_handle(TheHandleData, new_handle).area
          /\ raw_handles' = make_handle(TheHandleData, new_handle).raw_handles
    /\ UNCHANGED <<handle_scopes, handle_last>>
    /\ UNCHANGED nonHandleVars

\* the innermost scope is dropped
DropScope ==
    /\ handle_scopes # << >>
    /\ handle_area' = drop_scope(TheHandleData, Head(handle_scopes)).area
    /\ raw_handles' = drop_scope(TheHandleData, Head(handle_scopes)).raw_handles
    /\ handle_scopes' = Tail(handle_scopes)
    /\ handle_last' = [entry |-> Head(handle_scopes).entry,
                       before |-> TheHandleData,
                       after |-> drop_scope(TheHandleData, Head(handle_scopes)),
                       outer |-> Len(handle_scopes) - 1]
    /\ UNCHANGED nonHandleVars

\* HandleData::new
InitHandle ==
    /\ handle_area = HandleArea(null_mut, null_mut, 0)
    /\ raw_handles = << >>
    /\ handle_scopes = << >>
    /\ handle_last = << >>
    /\ NonHandleIdle

NextHandle ==
    \/ NewScope
    \/ MakeHandle
    \/ DropScope

SpecHandle == InitHandle /\ [][NextHandle]_vars

\* C26: for any nesting of handle scopes and any number of handles created
\* inside a scope, also enough of them to allocate further chunks, the drop of
\* the scope leaves the handle area of the thread (offset, limit and the
\* chunks alive) exactly as it was when the scope was entered.
C26_ScopeRestoresArea ==
    handle_last # << >> =>
        /\ handle_last.after.area = handle_last.entry.area
        /\ handle_last.after.raw_handles = handle_last.entry.raw_handles
        /\ handle_last.after.area.offset.chunk # 0 =>
              \E i \in DOMAIN handle_last.after.raw_handles :
                  handle_last.after.raw_handles[i] = handle_last.after.area.offset.chunk

\* a scope inside another one was dropped after the handles made in it had
\* moved the area into a chunk allocated in the scope, while the outer scope
\* had allocated a chunk of its own
C26_Witness ==
    /\ handle_last # << >>
    /\ handle_last.outer >= 1
    /\ handle_last.before.area.chunks >= 1
    /\ handle_last.entry.area.chunks >= 1
    /\ handle_last.before.area.offset # handle_last.entry.area.offset

\* C27: for every linked class C that is not an interface and has a superclass
\* S, the vtable of C is at least as long as that of S, and at every index
\* below the vtable length of S the method in the vtable of C has the name and
\* descriptor of the method in the vtable of S at that index.
C27_SuperVtablePrefix ==
    \A c \in 1..Len(vtClasses) :
       (/\ vtClasses[c].linked
        /\ ~vtClasses[c].is_interface
        /\ vtClasses[c].super_class # 0) =>
          LET super_class == vtClasses[c].super_class
          IN /\ vtClasses[c].vtab_len >= vtClasses[super_class].vtab_len
             /\ \A i \in 1..vtClasses[super_class].vtab_len :
                   VtMethod(vtClasses, vtClasses[c].vtab_methods[i]).name
                      = VtMethod(vtClasses, vtClasses[super_class].vtab_methods[i]).name

\* a linked class whose superclass is not java/lang/Object: it overrides one
\* method of the vtable of its superclass in place and appends a method of its own
C27_Witness ==
    \E c \in 1..Len(vtClasses) :
       /\ vtClasses[c].linked
       /\ ~vtClasses[c].is_interface
       /\ vtClasses[c].super_class > 1
       /\ vtClasses[c].vtab_len > vtClasses[vtClasses[c].super_class].vtab_len
       /\ \E i \in 1..vtClasses[vtClasses[c].super_class].vtab_len :
             /\ vtClasses[c].vtab_methods[i][1] = c
             /\ vtClasses[vtClasses[c].super_class].vtab_methods[i][1]
                   = vtClasses[c].super_class

\* the fields whose layout_offset is the one obtain_field_offset assigned: those
\* of the class being parsed and of the classes adjust_fields has not moved yet
AssignedFields ==
    (IF layParser = << >> THEN { }
     ELSE { layParser.fields[i] : i \in 1..Len(layParser.fields) })
    \cup UNION { { layClasses[c].fields[i] : i \in 1..Len(layClasses[c].fields) } :
                 c \in { d \in 1..Len(layClasses) : ~layClasses[d].linked } }

\* C28: the layout offset assigned to a field is a multiple of the size of the
\* field, for every sequence of fields of sizes 1, 2, 4 and 8, also for a field
\* packed into the unused tail of an aligned 8-byte slot.
C28_NaturalAlignment ==
    \A f \in AssignedFields : f.layout_offset % f.size = 0

\* C29: after any sequence of inserts of distinct keys into the hash table,
\* those that reach the load factor 0.75 and build a new table included, a
\* lookup with the key of any entry inserted so far finds that entry, and the
\* size of the table is the number of distinct keys inserted.
C29_InsertedEntriesFound ==
    /\ \A s \in DOMAIN symHeap :
          get_value_by_str(symbol_table, symHeap[s].hash,
                           SymbolsWith(symHeap, symHeap[s].bytes)) = s
    /\ symbol_table.size = Cardinality({ e.key : e \in symLog })

\* the insert of the ninth distinct key reached the load factor: the table was
\* built again with the eight earlier entries and the new one
C29_Witness ==
    /\ symbol_table.capacity > 11
    /\ symbol_table.size = 9
    /\ Cardinality(DOMAIN symHeap) = 9

-----------------------------------------------------------------------------
(***************************************************************************)
(* Bump allocation in a space (memory/space.rs): Space::alloc under the    *)
(* Mutex of the free pointer, called by several threads.  Addresses and    *)
(* sizes are machine words of AddressBits bits; Address::offset is a       *)
(* pointer offset, which the hardware computes modulo the word.            *)
(***************************************************************************)

\* the width of usize and of a pointer, in bits
AddressBits == 4

\* the Space::alloc calls of a behaviour
MaxAllocs == 3

\* Space::new(space_type, start, size, exec): start and size of the space
SpaceStart == 8

SpaceSize == 4

AddressSpace == TwoTo(AddressBits)

\* every value of usize
AllocSizes == 0..(AddressSpace - 1)

\* Address::null
NullAddress == 0

\* Space::new: end = start.offset(size)
space_start == SpaceStart

space_end == SpaceStart + SpaceSize

\* Address::uoffset and Address::offset on the machine: a wrapping add
uoffset(addr, size) == (addr + size) % AddressSpace

\* the outcomes of free.uoffset(size) <= self.end: pointer offset beyond the
\* end of the address space is undefined; the build compares the wrapped
\* address, or it takes the offset for one that cannot wrap
FitsOutcomes(free, size) ==
    IF free + size < AddressSpace THEN { free + size <= space_end }
    ELSE { uoffset(free, size) <= space_end, FALSE }

\* Space::alloc with the Mutex held: the result and the free pointer afterwards
space_alloc(free, size, fits) ==
    IF fits THEN [result |-> free, free |-> uoffset(free, size)]
    ELSE [result |-> NullAddress, free |-> free]

\* a thread is in no call of Space::alloc
NoCall == [pc |-> "idle", size |-> 0]

InitSpace ==
    /\ space_free = space_start
    /\ space_lock = 0
    /\ alloc_calls = [t \in Threads |-> NoCall]
    /\ alloc_log = << >>
    /\ NonSpaceIdle

\* a thread calls Space::alloc(size) and waits for the Mutex: self.free.lock()
AllocCall(t, size) ==
    /\ alloc_calls[t].pc = "idle"
    /\ Len(alloc_log) + Cardinality({ u \in Threads : alloc_calls[u].pc # "idle" }) < MaxAllocs
    /\ alloc_calls' = [alloc_calls EXCEPT ![t] = [pc |-> "lock", size |-> size]]
    /\ UNCHANGED << space_free, space_lock, alloc_log >>
    /\ UNCHANGED nonSpaceVars

\* self.free.lock() returns the guard
AllocLock(t) ==
    /\ alloc_calls[t].pc = "lock"
    /\ space_lock = 0
    /\ space_lock' = t
    /\ alloc_calls' = [alloc_calls EXCEPT ![t].pc = "locked"]
    /\ UNCHANGED << space_free, alloc_log >>
    /\ UNCHANGED nonSpaceVars

\* the body of Space::alloc and its return, which drops the guard
AllocReturn(t) ==
    /\ alloc_calls[t].pc = "locked"
    /\ space_lock = t
    /\ \E fits \in FitsOutcomes(space_free, alloc_calls[t].size) :
          LET r == space_alloc(space_free, alloc_calls[t].size, fits)
          IN /\ space_free' = r.free
             /\ alloc_log' = Append(alloc_log,
                                [thread |-> t, size |-> alloc_calls[t].size,
                                 free |-> space_free, result |-> r.result,
                                 free_after |-> r.free])
    /\ space_lock' = 0
    /\ alloc_calls' = [alloc_calls EXCEPT ![t] = NoCall]
    /\ UNCHANGED nonSpaceVars

NextSpace ==
    \/ \E t \in Threads : \E size \in AllocSizes : AllocCall(t, size)
    \/ \E t \in Threads : AllocLock(t)
    \/ \E t \in Threads : AllocReturn(t)

SpecSpace == InitSpace /\ [][NextSpace]_vars

\* C30: Space::alloc(size) returns null and leaves the free pointer as it was
\* when fewer than size bytes remain between free and end; otherwise it returns
\* the free pointer of before and moves free on by size, so the bytes of every
\* result other than null lie between start and end, also when several
\* threads allocate at the same time.
C30_AllocInsideSpace ==
    \A i \in 1..Len(alloc_log) :
       LET e == alloc_log[i]
       IN /\ IF space_end - e.free < e.size
             THEN e.result = NullAddress /\ e.free_after = e.free
             ELSE e.result = e.free /\ e.free_after = e.free + e.size
          /\ e.result # NullAddress =>
                space_start <= e.result /\ e.result + e.size <= space_end

-----------------------------------------------------------------------------
(***************************************************************************)
(* Probing (object/hash_table.rs): a table of entries with given hashes,   *)
(* filled by get_or_insert_str and read by get_value_by_str.  The loop of  *)
(* HashTable::probe has no exit but a null slot or an equal entry; NoSlot  *)
(* stands for a run of the loop that meets neither in two rounds of the    *)
(* capacity, after which the offsets repeat.                               *)
(***************************************************************************)

\* the entries a behaviour inserts
MaxProbeKeys == 22

\* of those, the entries with a hash other than the first of the pool
MaxOtherKeys == 1

\* the hashes of the keys: 5 and 46 are congruent modulo 41, not modulo 11
ProbeHashPool == << 5, 46, 7 >>

ProbeHashes == { ProbeHashPool[i] : i \in 1..Len(ProbeHashPool) }

\* V::new_entry_with_key: a new entry for a key with hash h
NewProbeEntry(heap, h) == << h, 1 + Cardinality({ e \in DOMAIN heap : e[1] = h }) >>

\* VMObject::equals of the entries: the same object
ProbeEquals(heap) == { << e, e >> : e \in DOMAIN heap }

InitProbe ==
    /\ \E seed \in HasherSeeds : probe_table = HashTableNew(seed)
    /\ probe_heap = << >>
    /\ probe_last = << >>
    /\ NonProbeIdle

\* get_or_insert_str with a key that equals no entry and hashes to h
ProbeGetOrInsert(h) ==
    /\ ~probe_table.hung
    /\ Cardinality(DOMAIN probe_heap) < MaxProbeKeys
    /\ h # ProbeHashPool[1] =>
          Cardinality({ e \in DOMAIN probe_heap : e[1] # ProbeHashPool[1] }) < MaxOtherKeys
    /\ \E seed \in SeedsFor(probe_table, NullPtr) :
          LET new_entry == NewProbeEntry(probe_heap, h)
              heap2 == [ e \in (DOMAIN probe_heap) \cup { new_entry } |-> e[1] ]
          IN \E r \in { get_or_insert_str(probe_table, h, { }, new_entry,
                                          heap2, ProbeEquals(heap2), seed) } :
                /\ probe_table' = r.table
                /\ probe_heap' = IF r.value = new_entry THEN heap2 ELSE probe_heap
                /\ probe_last' = [op |-> "get_or_insert_str", hash |-> h,
                                  capacity |-> probe_table.capacity,
                                  size |-> probe_table.size,
                                  slot |-> probe(probe_table, h, { })]
    /\ UNCHANGED nonProbeVars

\* get_value_by_str with the key of entry e
ProbeGetValue(e) ==
    /\ ~probe_table.hung
    /\ probe_last' = [op |-> "get_value_by_str", hash |-> probe_heap[e],
                      capacity |-> probe_table.capacity,
                      size |-> probe_table.size,
                      slot |-> probe(probe_table, probe_heap[e], { e })]
    /\ UNCHANGED << probe_table, probe_heap >>
    /\ UNCHANGED nonProbeVars

NextProbe ==
    \/ \E h \in ProbeHashes : ProbeGetOrInsert(h)
    \/ \E e \in DOMAIN probe_heap : ProbeGetValue(e)

SpecProbe == InitProbe /\ [][NextProbe]_vars

\* C31: HashTable::probe terminates for every table reached through inserts
\* and rebuilds, at every capacity and every fill level below the load factor,
\* and for every key hash: after a bounded number of quadratic probes it is at
\* a null slot or at a slot with an equal entry.
C31_ProbeTerminates ==
    /\ ~probe_table.hung
    /\ probe_last # << >> => probe_last.slot # NoSlot

\* two fields of the same kind (both static or both instance fields) have a
\* byte in common
FieldsOverlap(f, g) ==
    /\ f.is_static = g.is_static
    /\ f.layout_offset < g.layout_offset + g.size
    /\ g.layout_offset < f.layout_offset + f.size

NoOverlapIn(fields) ==
    \A i \in 1..Len(fields) : \A j \in 1..Len(fields) :
       i # j => ~FieldsOverlap(fields[i], fields[j])

\* C32: for every sequence of field sizes, no two instance fields of a class
\* have a byte of [offset, offset + size) in common, and no two static fields
\* have: a write to one field changes no byte of another.
C32_FieldsDisjoint ==
    /\ layParser # << >> => NoOverlapIn(layParser.fields)
    /\ \A c \in 1..Len(layClasses) : NoOverlapIn(layClasses[c].fields)

\* the call of initialize on class c by thread b has returned to the handler
\* of the bytecode, which is about to do its static access on c
ReturnedToAccess(b, c) == HasTop(b, "op", "access") /\ Top(b).cls = c

\* C33: while a class is Initializing because thread a runs its <clinit> (no
\* <clinit> of the class has completed so far), a call of initialize on that
\* class by another thread b has not returned, and b does no static access on
\* the class, before the class is Initialized.
C33_OtherThreadWaits ==
    \A a \in Threads : \A b \in Threads : \A c \in InitClasses :
       (/\ a # b
        /\ initState[c] = "Initializing"
        /\ InClinitOf(a, c)
        /\ ~clinitDone[c]
        /\ ~InClinitOf(b, c)) => ~ReturnedToAccess(b, c)

-----------------------------------------------------------------------------
(***************************************************************************)
(* Object allocation (memory/heap.rs, memory/lab.rs): Heap::alloc_obj_lab  *)
(* with the allocation buffer of the calling thread, the direct            *)
(* allocation in the new space and the permanent allocation.  Addresses    *)
(* and sizes count words of POINTER_SIZE bytes in an address space of      *)
(* AddressBits bits; a step of a thread is what it does up to and          *)
(* including one Space::alloc, which runs under the Mutex of the space.    *)
(***************************************************************************)

\* the allocation calls of a behaviour
MaxHeapCalls == 3

\* SemiSpace::to of the new space: start and size
NewSpaceStart == 4

NewSpaceSize == 4

\* the permanent space: start and size
PermSpaceStart == 10

PermSpaceSize == 2

\* LocalAllocBuf::capacity
LabCapacity == 2

\* the sizes of objects (the header takes a word): within the capacity of a
\* buffer, above it, above what a space holds, and large enough for the sum
\* with the free pointer to pass the end of the address space
ObjectSizePool == << 1, 2, 3, 5, 7, 13 >>

ObjectSizes == { ObjectSizePool[i] : i \in 1..Len(ObjectSizePool) }

SpaceEnd(space) ==
    IF space = "new" THEN NewSpaceStart + NewSpaceSize ELSE PermSpaceStart + PermSpaceSize

\* the outcomes of free.uoffset(size) <= self.end for the space with end limit
FitsOutcomesIn(free, limit, size) ==
    IF free + size < AddressSpace THEN { free + size <= limit }
    ELSE { uoffset(free, size) <= limit, FALSE }

\* the outcomes of Space::alloc(size) on a space of the heap: the result and
\* the free pointers of the heap afterwards
HeapSpaceAlloc(free, space, size) ==
    { [result |-> r.result, free |-> [free EXCEPT ![space] = r.free]] :
        r \in { space_alloc(free[space], size, fits) :
                fits \in FitsOutcomesIn(free[space], SpaceEnd(space), size) } }

\* LocalAllocBuf::default
LocalAllocBufDefault == [free |-> NullAddress, limit |-> NullAddress, capacity |-> LabCapacity]

\* LocalAllocBuf::available
lab_available(lab) == lab.limit - lab.free

\* Heap::alloc_obj_lab_internal: the result and the buffer afterwards
alloc_obj_lab_internal(lab, size) ==
    IF size <= lab_available(lab)
    THEN [result |-> lab.free, lab |-> [lab EXCEPT !.free = uoffset(lab.free, size)]]
    ELSE [result |-> NullAddress, lab |-> lab]

\* LocalAllocBuf::new_buf
new_buf(lab, free, limit) == [lab EXCEPT !.free = free, !.limit = limit]

NoHeapCall == [pc |-> "idle", size |-> 0]

HeapCallsOpen == Cardinality({ t \in Threads : heap_calls[t].pc # "idle" })

\* the allocation returned result
Logged(t, kind, size, result) ==
    Append(heap_log, [thread |-> t, kind |-> kind, size |-> size, result |-> result])

\* the allocation ended in panic!("out of memory")
OutOfMemory(t, size) ==
    Append(heap_log, [thread |-> t, kind |-> "oom", size |-> size, result |-> NullAddress])

InitLab ==
    /\ heap_free = [new |-> NewSpaceStart, perm |-> PermSpaceStart]
    /\ lab_bufs = [t \in Threads |-> LocalAllocBufDefault]
    /\ heap_calls = [t \in Threads |-> NoHeapCall]
    /\ heap_log = << >>
    /\ NonLabIdle

\* Heap::alloc_obj_lab(size, thread) up to its first Space::alloc: a size above
\* the capacity goes to the new space, another one is served from the buffer
\* of the thread when it fits
LabCall(t, size) ==
    /\ heap_calls[t].pc = "idle"
    /\ Len(heap_log) + HeapCallsOpen < MaxHeapCalls
    /\ LET r == alloc_obj_lab_internal(lab_bufs[t], size)
       IN IF size > lab_bufs[t].capacity
          THEN /\ heap_calls' = [heap_calls EXCEPT ![t] = [pc |-> "direct", size |-> size]]
               /\ UNCHANGED << lab_bufs, heap_log >>
          ELSE IF r.result # NullAddress
          THEN /\ lab_bufs' = [lab_bufs EXCEPT ![t] = r.lab]
               /\ heap_log' = Logged(t, "lab", size, r.result)
               /\ UNCHANGED heap_calls
          ELSE /\ heap_calls' = [heap_calls EXCEPT ![t] = [pc |-> "refill", size |-> size]]
               /\ UNCHANGED << lab_bufs, heap_log >>
    /\ UNCHANGED heap_free
    /\ UNCHANGED nonLabVars

\* alloc_obj_lab: return heap.new_space.alloc(size)
LabDirect(t) ==
    /\ heap_calls[t].pc = "direct"
    /\ \E a \in HeapSpaceAlloc(heap_free, "new", heap_calls[t].size) :
          /\ heap_free' = a.free
          /\ heap_log' = Logged(t, "direct", heap_calls[t].size, a.result)
    /\ heap_calls' = [heap_calls EXCEPT ![t] = NoHeapCall]
    /\ UNCHANGED lab_bufs
    /\ UNCHANGED nonLabVars

\* alloc_obj_lab: buf = heap.new_space.alloc(lab_capacity); a buffer is
\* installed and serves the allocation, or the call goes on to alloc_obj
LabRefill(t) ==
    /\ heap_calls[t].pc = "refill"
    /\ \E a \in HeapSpaceAlloc(heap_free, "new", lab_bufs[t].capacity) :
          LET lab == new_buf(lab_bufs[t], a.result, uoffset(a.result, lab_bufs[t].capacity))
              r == alloc_obj_lab_internal(lab, heap_calls[t].size)
          IN /\ heap_free' = a.free
             /\ IF a.result # NullAddress
                THEN /\ lab_bufs' = [lab_bufs EXCEPT ![t] = r.lab]
                     /\ heap_log' = Append(Logged(t, "buf", lab.capacity, a.result),
                                           [thread |-> t, kind |-> "lab",
                                            size |-> heap_calls[t].size,
                                            result |-> r.result])
                     /\ heap_calls' = [heap_calls EXCEPT ![t] = NoHeapCall]
                ELSE /\ heap_calls' = [heap_calls EXCEPT ![t].pc = "alloc_obj"]
                     /\ UNCHANGED << lab_bufs, heap_log >>
    /\ UNCHANGED nonLabVars

\* Heap::alloc_obj: the first alloc_obj_internal
LabAllocObj(t) ==
    /\ heap_calls[t].pc = "alloc_obj"
    /\ \E a \in HeapSpaceAlloc(heap_free, "new", heap_calls[t].size) :
          /\ heap_free' = a.free
          /\ IF a.result # NullAddress
             THEN /\ heap_log' = Logged(t, "obj", heap_calls[t].size, a.result)
                  /\ heap_calls' = [heap_calls EXCEPT ![t] = NoHeapCall]
             ELSE /\ heap_calls' = [heap_calls EXCEPT ![t].pc = "retry"]
                  /\ UNCHANGED heap_log
    /\ UNCHANGED lab_bufs
    /\ UNCHANGED nonLabVars

\* Heap::alloc_obj: minor_gc(), which does nothing, the second
\* alloc_obj_internal and panic!("out of memory")
LabRetry(t) ==
    /\ heap_calls[t].pc = "retry"
    /\ \E a \in HeapSpaceAlloc(heap_free, "new", heap_calls[t].size) :
          /\ heap_free' = a.free
          /\ heap_log' = IF a.result # NullAddress
                          THEN Logged(t, "obj", heap_calls[t].size, a.result)
                          ELSE OutOfMemory(t, heap_calls[t].size)
    /\ heap_calls' = [heap_calls EXCEPT ![t] = NoHeapCall]
    /\ UNCHANGED lab_bufs
    /\ UNCHANGED nonLabVars

\* Heap::alloc_obj_permanent(size)
PermAlloc(t, size) ==
    /\ heap_calls[t].pc = "idle"
    /\ Len(heap_log) + HeapCallsOpen < MaxHeapCalls
    /\ \E a \in HeapSpaceAlloc(heap_free, "perm", size) :
          /\ heap_free' = a.free
          /\ heap_log' = Logged(t, "perm", size, a.result)
    /\ UNCHANGED << lab_bufs, heap_calls >>
    /\ UNCHANGED nonLabVars

NextLab ==
    \/ \E t \in Threads : \E size \in ObjectSizes : LabCall(t, size)
    \/ \E t \in Threads : LabDirect(t)
    \/ \E t \in Threads : LabRefill(t)
    \/ \E t \in Threads : LabAllocObj(t)
    \/ \E t \in Threads : LabRetry(t)
    \/ \E t \in Threads : \E size \in ObjectSizes : PermAlloc(t, size)

SpecLab == InitLab /\ [][NextLab]_vars

\* the allocations that handed out an address range
HandedOut ==
    { i \in 1..Len(heap_log) :
        /\ heap_log[i].kind \in { "lab", "direct", "obj", "perm" }
        /\ heap_log[i].result # NullAddress }

LabReturns == { i \in 1..Len(heap_log) : heap_log[i].kind \in { "lab", "direct", "obj" } }

\* C36: every allocation through Heap::alloc_obj_lab, for every size and for
\* sizes above the capacity of the buffer too, yields an address other than
\* null with size usable bytes in the new space, or signals out of memory: a
\* null address never reaches the construction of an object or array.
C36_NeverNull ==
    \A i \in LabReturns :
       /\ heap_log[i].result # NullAddress
       /\ NewSpaceStart <= heap_log[i].result
       /\ heap_log[i].result + heap_log[i].size <= NewSpaceStart + NewSpaceSize

\* aaload or aastore has handled an index outside the array it was given
IndexOutOfBounds ==
    /\ interp_last # << >>
    /\ interp_last.op_code \in { JvmInstruction.AALoad, JvmInstruction.AAStore }
    /\ interp_last.arr_ref # 0
    /\ interp_last.index \notin 0..(interp_last.heap[interp_last.arr_ref].length - 1)

\* C35: an array load or store touches the memory of an element only for
\* 0 <= index < length; for any other index, a negative one too, it raises
\* ArrayIndexOutOfBoundsException and reads or writes no element.
C35_IndexChecked ==
    IndexOutOfBounds =>
       /\ interp_last.outcome.kind = "throw"
       /\ interp_last.outcome.class = "java/lang/ArrayIndexOutOfBoundsException"
       /\ interp_heap = interp_last.heap

\* Stack::new: the first word of the region of the thread's stack, the words
\* stack_limit .. StackSlots; the words below it are the words of the code
\* space that lie before the region (Thread::new takes the region from
\* Heap::alloc_code)
stack_limit == 12

\* C37: for every sequence of calls and pushes the stack pointer is never
\* below stack_limit: no frame and no operand is written outside the region
\* of the thread's stack.
C37_StackInsideRegion == stack_sp >= stack_limit

\* C38: tableswitch and lookupswitch read default and low/high (or npairs)
\* from the first address behind the opcode whose offset from the start of
\* the code of the method is a multiple of four: they skip 0 to 3 bytes of
\* padding, depending on the address of the opcode.
C38_SwitchOperandsAligned ==
    JustHandled({ JvmInstruction.TableSwitch, JvmInstruction.LookupSwitch }) =>
        /\ interp_last.operands = SwitchOperandsAt(interp_last.op_addr)
        /\ interp_last.operands % 4 = 0
        /\ interp_last.operands - (interp_last.op_addr + 1) \in 0..3

\* C39: bipush pushes its one-byte immediate sign-extended to an int (the
\* operand bytes 0x80 .. 0xFF push -128 .. -1), as sipush pushes its two-byte
\* immediate sign-extended.
C39_PushSignExtends ==
    /\ JustHandled({ JvmInstruction.BiPush }) =>
          interp_stack[1] = ToI8(method_code[interp_last.op_addr + 2])
    /\ JustHandled({ JvmInstruction.SIPush }) =>
          interp_stack[1] = SignedBE(CodeBytes(interp_last.op_addr + 1, 2))

====
